---- MODULE Spec2Model ----
(***************************************************************************)
(* Model of the MCU projection brand transforms (brands/*.py).             *)
(*                                                                         *)
(* Text is modelled as a sequence of one-character strings, so that the    *)
(* string operations of the source (strip, lower, "in", re.sub, strptime,  *)
(* strftime) are computed character by character.  A timestamp is a record *)
(* [y, m, d]; NaT is the record of zeros.  A table is a record of a        *)
(* sequence of column names and a sequence of rows, a row being a sequence *)
(* of cells aligned with the columns, every cell a text.                   *)
(***************************************************************************)
EXTENDS Integers, Sequences, FiniteSets, TLC

VARIABLES
    pc,             \* position of the run that is being modelled
    brand,          \* the brand module whose transform is run
    s,              \* NDC: the month header text given to parse_month_string
    dt,             \* NDC: OriginalMonth_dt of the melted row
    country,        \* NDC: the row's supplier-country cell
    Adjusted_dt,    \* NDC: Adjusted_dt of the melted row
    AdjustedMonth,  \* NDC: AdjustedMonth label of the melted row
    reparsed,       \* NDC: the label parsed again for the column sort
    df,             \* the table handed to a transform
    result,         \* what the transform returned or raised
    resolved,       \* Pink Bra: the columns detected by each run of the detection so far
    season,         \* Tommy EU: the season argument of the transform
    mtime,          \* app: the modification time of every brand file
    modules,        \* app: what importing every brand file does at present
    session_state,  \* app: the last_refresh_time stored in every session
    cache,          \* app: the cached return value of load_brand_modules
    run             \* app: what the last run of the script did

\* the variables of the app script
appvars == <<mtime, modules, session_state, cache, run>>

\* the variables the table transforms and the month steps leave alone
extvars == <<resolved, season, appvars>>

vars == <<pc, brand, s, dt, country, Adjusted_dt, AdjustedMonth, reparsed, df, result, extvars>>

\* the app script is not run
AppIdle == mtime = <<>> /\ modules = <<>> /\ session_state = <<>> /\ cache = <<>> /\ run = <<>>

\* nothing was detected yet
ExtIdle == resolved = <<>> /\ season = <<>> /\ AppIdle

(***************************************************************************)
(* Characters and text                                                     *)
(***************************************************************************)
Uppers == <<"A","B","C","D","E","F","G","H","I","J","K","L","M",
            "N","O","P","Q","R","S","T","U","V","W","X","Y","Z">>
Lowers == <<"a","b","c","d","e","f","g","h","i","j","k","l","m",
            "n","o","p","q","r","s","t","u","v","w","x","y","z">>
DigitChars == <<"0","1","2","3","4","5","6","7","8","9">>

\* the missing value of pandas (NaN / None) in a cell or a header
NaN == <<"NaN">>

IsUpper(c) == \E i \in DOMAIN Uppers : Uppers[i] = c
IsLower(c) == \E i \in DOMAIN Lowers : Lowers[i] = c
IsDigit(c) == \E i \in DOMAIN DigitChars : DigitChars[i] = c
\* code points that are no ASCII characters, each one character of a text
NBSP == "<U+00A0>"
NNBSP == "<U+202F>"
EnDash == "<U+2013>"
EmDash == "<U+2014>"

\* the characters str.strip() and the pattern \s take as white space
IsSpace(c) == c \in {" ", "\t", "\n", "\r", NBSP, NNBSP}

\* the lower-case letter of every upper-case letter and the other way round
ToLower == [c \in {Uppers[i] : i \in DOMAIN Uppers} |-> Lowers[CHOOSE i \in DOMAIN Uppers : Uppers[i] = c]]
ToUpper == [c \in {Lowers[i] : i \in DOMAIN Lowers} |-> Uppers[CHOOSE i \in DOMAIN Lowers : Lowers[i] = c]]
LowerChar(c) == IF c \in DOMAIN ToLower THEN ToLower[c] ELSE c
UpperChar(c) == IF c \in DOMAIN ToUpper THEN ToUpper[c] ELSE c
DigitVal(c) == (CHOOSE i \in DOMAIN DigitChars : DigitChars[i] = c) - 1
DigitOf(n) == DigitChars[n + 1]

\* str.lower()
lower(t) == [i \in 1..Len(t) |-> LowerChar(t[i])]


\* t starts with sub at position i
MatchAt(t, i, sub) == i >= 1 /\ i + Len(sub) - 1 <= Len(t) /\ SubSeq(t, i, i + Len(sub) - 1) = sub

\* Python's  sub in t
Contains(sub, t) == \E i \in 1..(Len(t) + 1) : MatchAt(t, i, sub)

\* str.startswith
StartsWith(t, sub) == MatchAt(t, 1, sub)

RECURSIVE lstrip(_)
lstrip(t) == IF t # <<>> /\ IsSpace(Head(t)) THEN lstrip(Tail(t)) ELSE t

RECURSIVE rstrip(_)
rstrip(t) == IF t # <<>> /\ IsSpace(t[Len(t)]) THEN rstrip(SubSeq(t, 1, Len(t) - 1)) ELSE t

\* str.strip()
strip(t) == rstrip(lstrip(t))

\* str.replace(old, new) for a single character old; new is a text
RECURSIVE replace(_, _, _)
replace(t, old, new) ==
    IF t = <<>> THEN <<>>
    ELSE (IF Head(t) = old THEN new ELSE <<Head(t)>>) \o replace(Tail(t), old, new)

\* re.sub(r"[._/\\]", "-", t)
SubSeparators(t) == [i \in 1..Len(t) |-> IF t[i] \in {".", "_", "/", "\\"} THEN "-" ELSE t[i]]

\* re.sub(r"\s+", " ", t)
RECURSIVE SubSpaces(_)
SubSpaces(t) ==
    IF t = <<>> THEN <<>>
    ELSE IF IsSpace(Head(t))
         THEN <<" ">> \o SubSpaces(lstrip(t))
         ELSE <<Head(t)>> \o SubSpaces(Tail(t))

\* re.search(r"\d{2,4}", t)
SearchYearLike(t) == \E i \in 1..(Len(t) - 1) : IsDigit(t[i]) /\ IsDigit(t[i + 1])

(***************************************************************************)
(* Calendar: the proleptic Gregorian calendar of datetime / Timestamp      *)
(***************************************************************************)
NaT == [y |-> 0, m |-> 0, d |-> 0]

IsLeap(y) == y % 4 = 0 /\ (y % 100 # 0 \/ y % 400 = 0)

DaysInMonth(y, m) ==
    IF m = 2 THEN (IF IsLeap(y) THEN 29 ELSE 28)
    ELSE IF m \in {4, 6, 9, 11} THEN 30 ELSE 31

DaysBeforeYear(y) == (y - 1) * 365 + ((y - 1) \div 4) - ((y - 1) \div 100) + ((y - 1) \div 400)

RECURSIVE DaysBeforeMonth(_, _)
DaysBeforeMonth(y, m) == IF m = 1 THEN 0 ELSE DaysBeforeMonth(y, m - 1) + DaysInMonth(y, m - 1)

\* date.toordinal(): 1 is 0001-01-01
ToOrdinal(t) == DaysBeforeYear(t.y) + DaysBeforeMonth(t.y, t.m) + t.d

\* date.fromordinal()
FromOrdinal(n) ==
    LET n0   == n - 1
        n400 == n0 \div 146097
        r400 == n0 % 146097
        n100 == r400 \div 36524
        r100 == r400 % 36524
        n4   == r100 \div 1461
        r4   == r100 % 1461
        n1   == r4 \div 365
        year == n400 * 400 + n100 * 100 + n4 * 4 + n1 + 1
    IN  IF n1 = 4 \/ n100 = 4
        THEN [y |-> year - 1, m |-> 12, d |-> 31]
        ELSE LET doy == n - DaysBeforeYear(year)
                 mon == CHOOSE m \in 1..12 :
                            /\ DaysBeforeMonth(year, m) < doy
                            /\ doy <= DaysBeforeMonth(year, m) + DaysInMonth(year, m)
             IN  [y |-> year, m |-> mon, d |-> doy - DaysBeforeMonth(year, mon)]

\* Timestamp - timedelta(days=n)
MinusDays(t, n) == FromOrdinal(ToOrdinal(t) - n)

\* the calendar month of a timestamp, counted in months
MonthIndex(t) == t.y * 12 + (t.m - 1)

(***************************************************************************)
(* Month names                                                             *)
(***************************************************************************)
MonthAbbr == <<
    <<"j","a","n">>, <<"f","e","b">>, <<"m","a","r">>, <<"a","p","r">>,
    <<"m","a","y">>, <<"j","u","n">>, <<"j","u","l">>, <<"a","u","g">>,
    <<"s","e","p">>, <<"o","c","t">>, <<"n","o","v">>, <<"d","e","c">> >>

MonthFull == <<
    <<"j","a","n","u","a","r","y">>, <<"f","e","b","r","u","a","r","y">>,
    <<"m","a","r","c","h">>, <<"a","p","r","i","l">>, <<"m","a","y">>,
    <<"j","u","n","e">>, <<"j","u","l","y">>, <<"a","u","g","u","s","t">>,
    <<"s","e","p","t","e","m","b","e","r">>, <<"o","c","t","o","b","e","r">>,
    <<"n","o","v","e","m","b","e","r">>, <<"d","e","c","e","m","b","e","r">> >>

\* str.capitalize() of a lower-case name
Capitalize(t) == [i \in 1..Len(t) |-> IF i = 1 THEN UpperChar(t[i]) ELSE t[i]]

_MONTH_KEYWORDS == MonthAbbr \o MonthFull

(***************************************************************************)
(* parse_month_string                                                      *)
(***************************************************************************)
\* %y of strptime: [00, 68] is in the century 2000, [69, 99] in the century 1900
TwoDigitYear(v) == IF v <= 68 THEN 2000 + v ELSE 1900 + v

\* the value of the n digits of t that start at i, or -1 when they are not n digits
RECURSIVE DigitsAt(_, _, _)
DigitsAt(t, i, n) ==
    IF n = 0 THEN 0
    ELSE IF i + n - 1 > Len(t) \/ ~IsDigit(t[i + n - 1]) THEN -1
    ELSE LET hi == DigitsAt(t, i, n - 1)
         IN  IF hi < 0 THEN -1 ELSE hi * 10 + DigitVal(t[i + n - 1])

\* the month whose name in names starts at position i of the lower-cased t, or 0
MonthAt(t, i, names) ==
    LET hit == {m \in 1..12 : MatchAt(t, i, names[m])}
    IN  IF hit = {} THEN 0 ELSE CHOOSE m \in hit : \A o \in hit : Len(names[o]) <= Len(names[m])

\* strptime: match the items of fmt from item k against t from position i;
\* the whole text must be consumed (exact match)
RECURSIVE StrpFrom(_, _, _, _, _)
StrpFrom(t, i, fmt, k, acc) ==
    IF k > Len(fmt)
    THEN IF i = Len(t) + 1 /\ acc.d <= DaysInMonth(acc.y, acc.m) /\ acc.d >= 1 THEN acc ELSE NaT
    ELSE LET f == fmt[k] IN
         CASE f = "%b" ->
                LET m == MonthAt(t, i, MonthAbbr)
                IN  IF m = 0 THEN NaT
                    ELSE StrpFrom(t, i + Len(MonthAbbr[m]), fmt, k + 1, [acc EXCEPT !.m = m])
           [] f = "%B" ->
                LET m == MonthAt(t, i, MonthFull)
                IN  IF m = 0 THEN NaT
                    ELSE StrpFrom(t, i + Len(MonthFull[m]), fmt, k + 1, [acc EXCEPT !.m = m])
           [] f = "%y" ->
                LET v == DigitsAt(t, i, 2)
                IN  IF v < 0 THEN NaT
                    ELSE StrpFrom(t, i + 2, fmt, k + 1, [acc EXCEPT !.y = TwoDigitYear(v)])
           [] f = "%Y" ->
                LET v == DigitsAt(t, i, 4)
                IN  IF v < 0 THEN NaT
                    ELSE StrpFrom(t, i + 4, fmt, k + 1, [acc EXCEPT !.y = v])
           [] f = "%m" ->
                LET v == DigitsAt(t, i, 2)
                IN  IF v < 1 \/ v > 12 THEN NaT
                    ELSE StrpFrom(t, i + 2, fmt, k + 1, [acc EXCEPT !.m = v])
           [] f = "%d" ->
                LET v == DigitsAt(t, i, 2)
                IN  IF v < 1 \/ v > 31 THEN NaT
                    ELSE StrpFrom(t, i + 2, fmt, k + 1, [acc EXCEPT !.d = v])
           [] OTHER ->
                IF i <= Len(t) /\ t[i] = f THEN StrpFrom(t, i + 1, fmt, k + 1, acc) ELSE NaT

\* pd.to_datetime(t, format=fmt, errors="raise"); NaT stands for the exception
\* (the directives are matched ignoring case)
Strptime(t, fmt) == StrpFrom(lower(t), 1, fmt, 1, [y |-> 1900, m |-> 1, d |-> 1])

\* the first timestamp the formats give, in their order, or NaT
RECURSIVE FirstFormatFrom(_, _, _)
FirstFormatFrom(t, fmts, k) ==
    IF k > Len(fmts) THEN NaT
    ELSE LET r == Strptime(t, fmts[k])
         IN  IF r # NaT THEN r ELSE FirstFormatFrom(t, fmts, k + 1)

FirstFormat(t, fmts) == FirstFormatFrom(t, fmts, 1)

formats == <<
    <<"%b", "-", "%y">>, <<"%B", "-", "%y">>, <<"%b", "-", "%Y">>, <<"%B", "-", "%Y">>,
    <<"%b", " ", "%y">>, <<"%B", " ", "%y">>, <<"%b", "%y">>, <<"%B", "%y">>,
    <<"%Y", "-", "%b">>, <<"%Y", "-", "%B">> >>

\* the texts the inferring parse of pd.to_datetime(t, errors="coerce") reads in
\* this model: "Nov 2025", "November 2025" (day 1), "15-Nov-2025", "15 Nov 2025"
\* and the ISO date "2025-11-15"; every other text is coerced to NaT
InferFormats == <<
    <<"%b", " ", "%Y">>, <<"%B", " ", "%Y">>,
    <<"%d", "-", "%b", "-", "%Y">>, <<"%d", " ", "%b", " ", "%Y">>,
    <<"%Y", "-", "%m", "-", "%d">> >>

to_datetime_coerce(t) == IF t = NaN THEN NaT ELSE FirstFormat(strip(t), InferFormats)

parse_month_string(x) ==
    IF x = NaN THEN NaT
    ELSE LET t == SubSpaces(SubSeparators(strip(x)))
             r == FirstFormat(t, formats)
         IN  IF r # NaT THEN r ELSE to_datetime_coerce(t)

\* a column that detect_month_columns keeps: a month keyword and a year-like number
IsMonthColumn(c) ==
    LET low == lower(c)
    IN  (\E k \in DOMAIN _MONTH_KEYWORDS : Contains(_MONTH_KEYWORDS[k], low)) /\ SearchYearLike(low)

\* a label written with the month number, strftime("%m-%y")
strftime_m_y(t) ==
    <<DigitOf(t.m \div 10), DigitOf(t.m % 10), "-", DigitOf((t.y % 100) \div 10), DigitOf(t.y % 10)>>

\* Timestamp.strftime("%b-%y")
strftime_b_y(t) ==
    Capitalize(MonthAbbr[t.m]) \o <<"-", DigitOf((t.y % 100) \div 10), DigitOf(t.y % 10)>>

(***************************************************************************)
(* transform_ndc.adjust_dt                                                 *)
(***************************************************************************)
LocalDays == 93
ForeignDays == 120

\* str(value) of a cell
Str(x) == IF x = NaN THEN <<"n","a","n">> ELSE x

\* a classification that takes either token alone as local
IsLocalEitherToken(c) ==
    LET low == lower(strip(Str(c)))
    IN  Contains(<<"s","r","i">>, low) \/ Contains(<<"l","a","n","k","a">>, low)

IsLocal(c) ==
    LET low == lower(strip(Str(c)))
    IN  \/ Contains(<<"s","r","i"," ","l","a","n","k","a">>, low)
        \/ (Contains(<<"s","r","i">>, low) /\ Contains(<<"l","a","n","k","a">>, low))
        \/ low \in {<<"s","l">>, <<"s","r","i">>, <<"s","r","i","l","a","n","k","a">>}

\* an adjuster that takes a blank or missing country for local
adjust_dt_blank_local(c, t) ==
    IF IsLocal(c) \/ strip(Str(c)) \in {<<>>, <<"n","a","n">>} THEN MinusDays(t, LocalDays)
    ELSE MinusDays(t, ForeignDays)

adjust_dt(c, t) == IF IsLocal(c) THEN MinusDays(t, LocalDays) ELSE MinusDays(t, ForeignDays)

(***************************************************************************)
(* Tables                                                                  *)
(*                                                                         *)
(* A table is [columns, rows]: the column names in order and the rows in   *)
(* order, a row being the sequence of its cells.  A transform ends in a    *)
(* result [status, error, columns, months, rows]: status "table" with the  *)
(* metadata column names, the month column names in their order and the    *)
(* rows; status "empty" for the empty DataFrame; status "error" for a      *)
(* raised exception, error naming it.  The rows of a pivoted table are a   *)
(* set of [key, qty]: the metadata cells and the numbers under the months; *)
(* grouped holds the long rows the pivot was built from.                   *)
(***************************************************************************)

Min(S) == CHOOSE x \in S : \A o \in S : x <= o

\* the subsequence of q at the ascending indices in I
RECURSIVE SelectFrom(_, _, _)
SelectFrom(q, I, i) ==
    IF i > Len(q) THEN <<>>
    ELSE (IF i \in I THEN <<q[i]>> ELSE <<>>) \o SelectFrom(q, I, i + 1)

Select(q, I) == SelectFrom(q, I, 1)

\* the cells of a row under the columns listed in idx (a sequence of indices)
Cells(row, idx) == [i \in 1..Len(idx) |-> row[idx[i]]]

\* the first of the column indices in hit, or 0: next((c for c in columns if ...), None)
FirstIndex(hit) == IF hit = {} THEN 0 ELSE Min(hit)

RECURSIVE SumQty(_)
SumQty(S) == IF S = {} THEN 0 ELSE LET x == CHOOSE x \in S : TRUE IN x.qty + SumQty(S \ {x})

RECURSIVE SumSeq(_)
SumSeq(q) == IF q = <<>> THEN 0 ELSE Head(q) + SumSeq(Tail(q))

\* raise ValueError(...) for columns that were not found: named holds the
\* column names the message gives as missing, listed the headers it lists
ColumnError(e, named, listed) ==
    [status |-> "error", error |-> e, columns |-> <<>>, months |-> <<>>, rows |-> {}, grouped |-> {},
     named |-> named, listed |-> listed]
RaisedError(e) == ColumnError(e, {}, <<>>)
EmptyDataFrame ==
    [status |-> "empty", error |-> "", columns |-> <<>>, months |-> <<>>, rows |-> {}, grouped |-> {},
     named |-> {}, listed |-> <<>>]
NoResult ==
    [status |-> "none", error |-> "", columns |-> <<>>, months |-> <<>>, rows |-> {}, grouped |-> {},
     named |-> {}, listed |-> <<>>]

\* pivot_table(index=keys, columns=month, values=qty, aggfunc="sum", fill_value=0)
\* and reset_index over the long rows in grouped: one row per distinct key, one
\* column per label in the order given, the sum of the quantities in each cell
\* and 0 where there is none
PivotedTable(columns, order, grouped) ==
    [status  |-> "table",
     error   |-> "",
     columns |-> columns,
     months  |-> order,
     rows    |-> {[key |-> k,
                   qty |-> [i \in 1..Len(order) |->
                               SumQty({l \in grouped : l.key = k /\ l.month = order[i]})]]
                    : k \in {l.key : l \in grouped}},
     grouped |-> grouped,
     named   |-> {},
     listed  |-> <<>>]
NoTable == [columns |-> <<>>, rows |-> <<>>]

(***************************************************************************)
(* Quantity cleaning                                                       *)
(***************************************************************************)
\* the digits of t as a number, t a non-empty text of digits
RECURSIVE DigitsValue(_)
DigitsValue(t) == IF t = <<>> THEN 0 ELSE DigitsValue(SubSeq(t, 1, Len(t) - 1)) * 10 + DigitVal(t[Len(t)])

IsDigits(t) == t # <<>> /\ \A i \in 1..Len(t) : IsDigit(t[i])

\* pd.to_numeric(t, errors="coerce").fillna(0) of one cell: a whole number with
\* an optional sign is itself, every other text (blank, "nan", words) is 0
to_numeric_fillna(t) ==
    LET u == strip(t)
    IN  IF IsDigits(u) THEN DigitsValue(u)
        ELSE IF u # <<>> /\ Head(u) = "-" /\ IsDigits(Tail(u)) THEN 0 - DigitsValue(Tail(u))
        ELSE 0

\* a cleaning that leaves the thousands separators in the text
CleanQtyKeepingCommas(cell) == to_numeric_fillna(strip(Str(cell)))

\* .astype(str).str.replace(",", "").str.strip(), then to_numeric and fillna(0)
CleanQty(cell) == to_numeric_fillna(strip(replace(Str(cell), ",", <<>>)))

(***************************************************************************)
(* Group by and pivot                                                      *)
(*                                                                         *)
(* A long row is [id, key, month, qty]: the melted row it comes from, its  *)
(* metadata cells, its month label and its cleaned quantity.               *)
(***************************************************************************)
HasNaN(key) == \E i \in 1..Len(key) : key[i] = NaN

\* groupby(keys) with the default dropna=True leaves out every row that has a
\* missing key cell; with dropna=False it keeps them
GroupRows(long, dropna) == IF dropna THEN {l \in long : ~HasNaN(l.key)} ELSE long

\* character order for the alphabetical order of labels
CharRank(c) ==
    IF IsDigit(c) THEN 10 + DigitVal(c)
    ELSE IF IsUpper(c) THEN 30 + (CHOOSE i \in DOMAIN Uppers : Uppers[i] = c)
    ELSE IF IsLower(c) THEN 60 + (CHOOSE i \in DOMAIN Lowers : Lowers[i] = c)
    ELSE IF c = "-" THEN 5 ELSE 1

RECURSIVE TextLess(_, _)
TextLess(a, b) ==
    IF b = <<>> THEN FALSE
    ELSE IF a = <<>> THEN TRUE
    ELSE IF Head(a) # Head(b) THEN CharRank(Head(a)) < CharRank(Head(b))
    ELSE TextLess(Tail(a), Tail(b))

\* the columns of pivot_table: the distinct labels in alphabetical order
RECURSIVE Alphabetical(_)
Alphabetical(S) ==
    IF S = {} THEN <<>>
    ELSE LET x == CHOOSE x \in S : \A o \in S \ {x} : TextLess(x, o)
         IN  <<x>> \o Alphabetical(S \ {x})

\* sorted(zip(parsed, labels)) read off: the labels in the order of their
\* parsed key (key a function on the labels), equal keys in the order of the text
RECURSIVE SortByKey(_, _)
SortByKey(S, key) ==
    IF S = {} THEN <<>>
    ELSE LET x == CHOOSE x \in S : \A o \in S \ {x} :
                      \/ key[x] < key[o]
                      \/ (key[x] = key[o] /\ TextLess(x, o))
         IN  <<x>> \o SortByKey(S \ {x}, key)

(***************************************************************************)
(* transform_ndc                                                           *)
(***************************************************************************)
\* df.columns.astype(str).str.strip().str.replace("\n", " ").str.replace("\r", " ")
CleanNdcColumn(c) == replace(replace(strip(Str(c)), "\n", <<" ">>), "\r", <<" ">>)

TextSupplierName == <<"S","u","p","p","l","i","e","r">>
TextSupplierCountryName == <<"S","u","p","p","l","i","e","r"," ","C","o","u","n","t","r","y">>
TextSupplier == <<"s","u","p","p","l","i","e","r">>
TextSupplierCountry == <<"s","u","p","p","l","i","e","r"," ","c","o","u","n","t","r","y">>

\* the key of a label in the sort of the month columns
LabelKey(t) == IF t = NaT THEN 0 ELSE ToOrdinal(t)

\* the melted rows of the month columns whose header parses, each with its
\* adjusted month label and its cleaned quantity
NdcLongRows(columns, rows, month_cols, id_vars, supplier_country_col) ==
    {[id    |-> <<r, c>>,
      key   |-> Cells(rows[r], id_vars),
      month |-> strftime_b_y(adjust_dt(rows[r][supplier_country_col], parse_month_string(columns[c]))),
      qty   |-> CleanQty(rows[r][c])]
        : r \in 1..Len(rows), c \in {m \in month_cols : parse_month_string(columns[m]) # NaT}}

transform_ndc(d) ==
    IF Len(d.rows) = 0 THEN EmptyDataFrame
    ELSE
    LET columns == [i \in 1..Len(d.columns) |-> CleanNdcColumn(d.columns[i])]
        supplier_col == FirstIndex({i \in 1..Len(columns) : lower(strip(columns[i])) = TextSupplier})
        supplier_country_col ==
            FirstIndex({i \in 1..Len(columns) : Contains(TextSupplierCountry, lower(strip(columns[i])))})
        month_cols == {i \in 1..Len(columns) : IsMonthColumn(columns[i])}
        id_vars == Select([i \in 1..Len(columns) |-> i], (1..Len(columns)) \ month_cols)
        melted == NdcLongRows(columns, d.rows, month_cols, id_vars, supplier_country_col)
        grouped == GroupRows(melted, TRUE)
        labels == {l.month : l \in grouped}
        ordered_months == SortByKey(labels, [x \in labels |-> LabelKey(parse_month_string(x))])
    IN  IF supplier_col = 0 \/ supplier_country_col = 0 THEN ColumnError("Missing 'Supplier' or 'Supplier Country' columns",
                         {TextSupplierName, TextSupplierCountryName}, columns)
        ELSE IF month_cols = {} THEN RaisedError("No month columns detected")
        ELSE IF melted = {} THEN RaisedError("After parsing month headers, no valid month values remained")
        ELSE IF grouped = {} THEN EmptyDataFrame
        ELSE PivotedTable(Cells(columns, id_vars), ordered_months, grouped)

(***************************************************************************)
(* transform_plm_to_mcu of TH Apparel and of M&S (the same code)           *)
(***************************************************************************)
REQUIRED_COLS == <<
    <<"S","e","a","s","o","n">>, <<"S","t","y","l","e">>, <<"B","O","M">>, <<"C","y","c","l","e">>, <<"A","r","t","i","c","l","e">>, <<"T","y","p","e"," ","o","f"," ","C","o","n","s","t"," ","1">>,
    <<"S","u","p","p","l","i","e","r">>, <<"U","O","M">>, <<"C","o","m","p","o","s","i","t","i","o","n">>, <<"M","e","a","s","u","r","e","m","e","n","t">>, <<"S","u","p","p","l","i","e","r"," ","C","o","u","n","t","r","y">>,
    <<"A","v","g"," ","Y","Y">> >>


\* a selection that keeps every column
AllColumns(columns) == 1..Len(columns)

\* the columns kept by  [c for c in df.columns if not c.lower().startswith("sum")]
NotSumColumns(columns) == {i \in 1..Len(columns) : ~StartsWith(lower(columns[i]), <<"s","u","m">>)}

\* month_cols = [c for c in df.columns if "-" in c], as ascending indices
DashColumns(columns, kept) == Select([i \in 1..Len(columns) |-> i], {i \in kept : Contains(<<"-">>, columns[i])})

\* a month cell after  df_final[month_cols].fillna(0)
FillNa0(cell) == IF cell = NaN THEN <<"0">> ELSE cell

\* the rows of df_final: "Fabrics", the required cells and the filled month cells
PlmRows(rows, required_idx, month_cols) ==
    [r \in 1..Len(rows) |->
        [key |-> <<<<"F","a","b","r","i","c","s">>>> \o Cells(rows[r], required_idx),
         qty |-> [i \in 1..Len(month_cols) |-> FillNa0(rows[r][month_cols[i]])]]]

transform_plm_to_mcu(d) ==
    LET columns == [i \in 1..Len(d.columns) |-> strip(d.columns[i])]
        kept == NotSumColumns(columns)
        month_cols == DashColumns(columns, kept)
        required_idx == [i \in 1..Len(REQUIRED_COLS) |->
                            FirstIndex({j \in 1..Len(columns) : columns[j] = REQUIRED_COLS[i]})]
        missing == {i \in 1..Len(REQUIRED_COLS) : required_idx[i] = 0 \/ required_idx[i] \notin kept}
    IN  IF missing # {}
        THEN ColumnError("Missing required columns", {REQUIRED_COLS[i] : i \in missing}, <<>>)
        ELSE [status  |-> "table",
              error   |-> "",
              columns |-> <<<<"S","h","e","e","t"," ","N","a","m","e","s">>>> \o REQUIRED_COLS,
              months  |-> Cells(columns, month_cols),
              rows    |-> PlmRows(d.rows, required_idx, month_cols),
              grouped |-> {},
              named   |-> {},
              listed  |-> <<>>]

(***************************************************************************)
(* The buy-sheet transforms: one ex-mill date and one quantity per row     *)
(***************************************************************************)
\* str.replace(old, new) for texts old (not empty) and new
RECURSIVE ReplaceText(_, _, _)
ReplaceText(t, old, new) ==
    IF t = <<>> THEN <<>>
    ELSE IF MatchAt(t, 1, old) THEN new \o ReplaceText(SubSeq(t, Len(old) + 1, Len(t)), old, new)
    ELSE <<Head(t)>> \o ReplaceText(Tail(t), old, new)

\* the rows whose ex-mill cell  pd.to_datetime(..., errors="coerce")  reads as a date
ValidDateRowsOrNone(rows, exmill_col) ==
    IF \A r \in 1..Len(rows) : to_datetime_coerce(rows[r][exmill_col]) # NaT
    THEN 1..Len(rows) ELSE {}

ValidDateRows(rows, exmill_col) ==
    {r \in 1..Len(rows) : to_datetime_coerce(rows[r][exmill_col]) # NaT}

\* dt.strftime("%b-%y") of the row's ex-mill date
MonthLabel(cell) == strftime_b_y(to_datetime_coerce(cell))

\* the key of pd.to_datetime(month_cols, format="%b-%y", errors="coerce") in the sort
FormatKey(label) == LabelKey(Strptime(label, <<"%b", "-", "%y">>))

\* the month labels in the order  sorted(zip(parsed, month_cols))  gives
SortedMonths(long) ==
    LET labels == {l.month : l \in long}
    IN  SortByKey(labels, [x \in labels |-> FormatKey(x)])

\* the cells of a row under the index columns; an index of 0 is a column that
\* ensure_col created empty
KeyCells(row, idx) == [i \in 1..Len(idx) |-> IF idx[i] = 0 THEN <<>> ELSE row[idx[i]]]

\* the long rows of the rows in keep; qty gives the cleaned quantity of each
LongRows(rows, keep, idx, exmill_col, qty) ==
    {[id    |-> r,
      key   |-> KeyCells(rows[r], idx),
      month |-> MonthLabel(rows[r][exmill_col]),
      qty   |-> qty[r]] : r \in keep}

(***************************************************************************)
(* Pink Bra                                                                *)
(***************************************************************************)
deep_clean_colname(c) ==
    IF c = NaN THEN <<>>
    ELSE strip(replace(replace(replace(replace(replace(replace(c,
            NBSP, <<" ">>), NNBSP, <<>>), "\t", <<" ">>), "\n", <<" ">>),
            EnDash, <<"-">>), EmDash, <<"-">>))

\* "_".join([p for p in key.split("_") if p != ""])
RECURSIVE CollapseUnderscores(_)
CollapseUnderscores(t) ==
    IF t = <<>> THEN <<>>
    ELSE IF Head(t) = "_" THEN CollapseUnderscores(Tail(t))
    ELSE LET stop == IF \E i \in 1..Len(t) : t[i] = "_"
                     THEN Min({i \in 1..Len(t) : t[i] = "_"}) ELSE Len(t) + 1
             rest == CollapseUnderscores(SubSeq(t, stop, Len(t)))
         IN  SubSeq(t, 1, stop - 1) \o (IF rest = <<>> THEN <<>> ELSE <<"_">> \o rest)

\* normalize_map: the normalized key of every column, in column order
normalize_map(columns) ==
    [i \in 1..Len(columns) |->
        CollapseUnderscores(
            replace(replace(replace(replace(lower(deep_clean_colname(columns[i])),
                " ", <<"_">>), "-", <<"_">>), ".", <<"_">>), "/", <<"_">>))]

\* find_best_col: the index of the column found, or 0 for None
find_best_col(normalized_map, keywords_any, keywords_all) ==
    LET all == {i \in 1..Len(normalized_map) :
                    \A k \in 1..Len(keywords_all) : Contains(keywords_all[k], normalized_map[i])}
        any == {i \in 1..Len(normalized_map) :
                    \E k \in 1..Len(keywords_any) : Contains(keywords_any[k], normalized_map[i])}
    IN  IF keywords_all # <<>> /\ all # {} THEN Min(all)
        ELSE IF keywords_any # <<>> /\ any # {} THEN Min(any)
        ELSE 0

\* .astype(str).str.replace(",", "").str.replace("\u00A0", "").str.strip(), then
\* to_numeric and fillna(0)
CleanQtyPink(cell) ==
    to_numeric_fillna(strip(replace(replace(Str(cell), ",", <<>>), NBSP, <<>>)))

PinkDisplayNames == <<<<"S","u","p","p","l","i","e","r">>, <<"A","r","t","i","c","l","e"," ","N","o">>, <<"M","e","a","s","u","r","e","m","e","n","t">>, <<"S","u","p","p","l","i","e","r"," ","C","o","u","n","t","r","y">>,
                      <<"T","y","p","e"," ","o","f"," ","C","o","n","s","1">>, <<"P","l","a","n","t">>>>

\* the columns detected for the roles, each the index of a column or 0 for None
DetectPinkColumns(col_map) ==
    LET rm_ex_first == find_best_col(col_map,
            <<<<"r","m","e","x">>, <<"r","m","_","e","x">>, <<"r","m","e","x","m","i","l","l">>, <<"r","m","_","e","x","_","m","i","l","l">>, <<"e","x","m","i","l","l">>, <<"e","x","_","m","i","l","l">>,
              <<"r","m","e","x",".","m","i","l","l">>, <<"r","m","_","e","x",".","m","i","l","l">>>>,
            <<<<"r","m">>, <<"e","x">>, <<"m","i","l","l">>>>)
        rm_col == IF rm_ex_first # 0 THEN rm_ex_first
                  ELSE find_best_col(col_map, <<>>, <<<<"e","x">>, <<"m","i","l","l">>>>)
        qty_col == find_best_col(col_map,
            <<<<"q","t","y">>, <<"q","u","a","n","t","i","t","y">>, <<"r","e","q","u","i","r","e","m","e","n","t">>, <<"r","e","q","u","i","r","e">>>>, <<>>)
        article_col == find_best_col(col_map,
            <<<<"a","r","t","i","c","l","e">>, <<"a","r","t","i","c","l","e","_","n","o">>, <<"a","r","t","i","c","l","e","n","o">>, <<"a","r","t","i","c","l","e","_","n","o">>, <<"a","r","t","i","c","l","e","_","n","u","m","b","e","r">>>>, <<>>)
        supplier_col == find_best_col(col_map, <<<<"s","u","p","p","l","i","e","r">>, <<"v","e","n","d","o","r">>>>, <<>>)
        measurement_col == find_best_col(col_map, <<<<"m","e","a","s","u","r","e","m","e","n","t">>, <<"m","e","a","s","u","r","e">>>>, <<>>)
        supplier_country_col == find_best_col(col_map,
            <<<<"s","u","p","p","l","i","e","r","_","c","o","u","n","t","r","y">>, <<"s","u","p","p","l","i","e","r","c","o","o">>, <<"c","o","u","n","t","r","y">>>>, <<>>)
        type_of_cons_col == find_best_col(col_map,
            <<<<"t","y","p","e","_","o","f","_","c","o","n","s">>, <<"t","y","p","e","o","f","c","o","n","s">>, <<"t","y","p","e","_","o","f","_","c","o","n","s","1">>, <<"t","y","p","e","_","o","f","_","c","o","n","s","t">>,
              <<"t","y","p","e","_","o","f","_","c","o","n","s","1">>>>, <<>>)
        plant_col == find_best_col(col_map,
            <<<<"p","l","a","n","t">>, <<"p","r","o","d","u","c","t","i","o","n","_","p","l","a","n","t">>, <<"p","l","a","n","t","_","n","a","m","e">>>>, <<>>)
    IN  [rm_col |-> rm_col,
         qty_col |-> qty_col,
         article_col |-> article_col,
         supplier_col |-> supplier_col,
         measurement_col |-> measurement_col,
         supplier_country_col |-> supplier_country_col,
         type_of_cons_col |-> type_of_cons_col,
         plant_col |-> plant_col]

\* the names the error message gives to the four roles it requires
PinkRequiredNames == <<<<"R","M"," ","E","x"," ","M","i","l","l">>, <<"Q","t","y">>, <<"A","r","t","i","c","l","e"," ","N","o">>, <<"S","u","p","p","l","i","e","r">>>>

transform_pink_bra(d) ==
    LET col_map == normalize_map(d.columns)
        det == DetectPinkColumns(col_map)
        rm_col == det.rm_col
        qty_col == det.qty_col
        article_col == det.article_col
        supplier_col == det.supplier_col
        measurement_col == det.measurement_col
        supplier_country_col == det.supplier_country_col
        type_of_cons_col == det.type_of_cons_col
        plant_col == det.plant_col
        identity_cols == <<supplier_col, article_col, measurement_col, supplier_country_col,
                           type_of_cons_col, plant_col>>
        keep == IF rm_col = 0 \/ qty_col = 0 THEN {}
                ELSE {r \in ValidDateRows(d.rows, rm_col) : CleanQtyPink(d.rows[r][qty_col]) # 0}
        grouped == GroupRows(LongRows(d.rows, keep, identity_cols, rm_col,
                                      [r \in keep |-> CleanQtyPink(d.rows[r][qty_col])]), FALSE)
        pivoted == GroupRows(grouped, TRUE)
    IN  IF rm_col = 0 \/ qty_col = 0 \/ article_col = 0 \/ supplier_col = 0
        THEN ColumnError("Could not detect required columns",
                {PinkRequiredNames[i] : i \in {j \in 1..4 : <<rm_col, qty_col, article_col, supplier_col>>[j] = 0}},
                d.columns)
        ELSE IF keep = {}
        THEN RaisedError("After parsing dates/qty there are no valid rows to process")
        ELSE PivotedTable(PinkDisplayNames, SortedMonths(pivoted), pivoted)

(***************************************************************************)
(* VS Bra                                                                  *)
(***************************************************************************)
\* the en dash and the em dash as the mis-decoded three characters of the source
MisdecodedEnDash == <<"<U+201A>", "<U+00C4>", "<U+00EC>">>
MisdecodedEmDash == <<"<U+201A>", "<U+00C4>", "<U+00EE>">>

\* clean_columns: the new name of one column
clean_column(c) ==
    strip(ReplaceText(ReplaceText(replace(Str(c), NBSP, <<" ">>),
            MisdecodedEnDash, <<"-">>), MisdecodedEmDash, <<"-">>))

\* detect_column: the index of the first column that holds a keyword, or 0
detect_column(columns, keywords) ==
    FirstIndex({i \in 1..Len(columns) :
                    \E k \in 1..Len(keywords) : Contains(lower(keywords[k]), lower(Str(columns[i])))})

\* the names the error message gives to the roles, in the order of the check
VsBraRequiredNames == <<<<"V","e","n","d","o","r">>, <<"C","a","t","e","g","o","r","y">>, <<"D","e","p","t"," ","C","o","d","e">>, <<"F","S">>, <<"P","r","o","g","r","a","m">>, <<"S","t","y","l","e">>,
                        <<"B","S">>, <<"C","O","O">>, <<"S","u","p","p","l","i","e","r"," ","N","a","m","e">>, <<"A","r","t","i","c","l","e"," ","N","o",".">>, <<"M","e","a","s","u","r","e","m","e","n","t">>,
                        <<"R","E","Q","."," ","E","x","-","m","i","l","l"," ","D","a","t","e">>, <<"R","e","q","u","i","r","e","m","e","n","t"," ","(","M",")">>>>

transform_vs_bra(d) ==
    LET columns == [i \in 1..Len(d.columns) |-> clean_column(d.columns[i])]
        vendor_col == detect_column(columns, <<<<"v","e","n","d","o","r">>, <<"s","u","p","p","l","i","e","r"," ","n","a","m","e">>>>)
        category_col == detect_column(columns, <<<<"c","a","t","e","g","o","r","y">>>>)
        dept_col == detect_column(columns, <<<<"d","e","p","t"," ","c","o","d","e">>>>)
        fs_col == detect_column(columns, <<<<"f","s">>>>)
        program_col == detect_column(columns, <<<<"p","r","o","g","r","a","m">>>>)
        style_col == detect_column(columns, <<<<"s","t","y","l","e">>>>)
        bs_col == detect_column(columns, <<<<"b","s">>>>)
        coo_col == detect_column(columns, <<<<"c","o","o">>, <<"c","o","o"," ","c","o","d","e">>>>)
        supplier_col == detect_column(columns, <<<<"s","u","p","p","l","i","e","r">>>>)
        article_col == detect_column(columns, <<<<"a","r","t","i","c","l","e">>>>)
        measurement_col == detect_column(columns, <<<<"m","e","a","s","u","r","e","m","e","n","t">>>>)
        exmill_col == detect_column(columns,
            <<<<"r","e","q","."," ","e","x","-","m","i","l","l">>, <<"r","e","q"," ","e","x"," ","m","i","l","l">>, <<"e","x","-","m","i","l","l">>, <<"e","x"," ","m","i","l","l">>>>)
        qty_col == detect_column(columns, <<<<"r","e","q","u","i","r","e","m","e","n","t">>, <<"q","t","y">>, <<"q","t","y"," ","(","m",")">>>>)
        identity_cols == <<vendor_col, category_col, dept_col, fs_col, program_col, style_col,
                           bs_col, coo_col, supplier_col, article_col, measurement_col>>
        found == \A i \in 1..Len(identity_cols) : identity_cols[i] # 0
        valid == IF exmill_col = 0 \/ article_col = 0 THEN {}
                 ELSE {r \in ValidDateRows(d.rows, exmill_col) : d.rows[r][article_col] # NaN}
        keep == IF qty_col = 0 THEN {} ELSE {r \in valid : CleanQty(d.rows[r][qty_col]) # 0}
        pivoted == GroupRows(LongRows(d.rows, keep, identity_cols, exmill_col,
                                      [r \in keep |-> CleanQty(d.rows[r][qty_col])]), TRUE)
    IN  IF ~found \/ exmill_col = 0 \/ qty_col = 0
        THEN ColumnError("Missing required column(s)",
                {VsBraRequiredNames[i] : i \in {j \in 1..13 :
                    (identity_cols \o <<exmill_col, qty_col>>)[j] = 0}},
                columns)
        ELSE IF valid = {}
        THEN RaisedError("No valid rows after parsing EX-mill dates or Article values")
        ELSE PivotedTable(Cells(columns, identity_cols), SortedMonths(pivoted), pivoted)

(***************************************************************************)
(* VSPink Brief and VSPink Apparel                                         *)
(***************************************************************************)
\* df.columns.str.strip().str.replace("\n", " ").str.replace("\r", " ")
CleanVspinkColumn(c) == replace(replace(strip(c), "\n", <<" ">>), "\r", <<" ">>)

\* find_column of transform_vspink_brief: a column whose lower-cased name is a
\* keyword (the last such column), else the first column that holds a keyword
brief_find_column(columns, key_words) ==
    LET exact == {k \in 1..Len(key_words) : \E i \in 1..Len(columns) : lower(columns[i]) = key_words[k]}
        k0 == Min(exact)
        holds == {i \in 1..Len(columns) :
                    \E k \in 1..Len(key_words) : Contains(key_words[k], lower(columns[i]))}
    IN  IF exact # {}
        THEN CHOOSE i \in 1..Len(columns) :
                /\ lower(columns[i]) = key_words[k0]
                /\ \A j \in 1..Len(columns) : lower(columns[j]) = key_words[k0] => j <= i
        ELSE IF holds # {} THEN Min(holds) ELSE 0

\* find_column of transform_vspink_apparel: for the first keyword that some
\* column holds, the first column that holds it
apparel_find_column(columns, key_words) ==
    LET hit == {k \in 1..Len(key_words) :
                    \E i \in 1..Len(columns) : Contains(lower(key_words[k]), lower(columns[i]))}
    IN  IF hit = {} THEN 0
        ELSE Min({i \in 1..Len(columns) : Contains(lower(key_words[Min(hit)]), lower(columns[i]))})

\* the columns kept as metadata: all but the quantity column, the ex-mill
\* column and a column named "Month", which the label column replaces
MetaColumns(columns, qty_col, exmill_col) ==
    Select([i \in 1..Len(columns) |-> i],
           {i \in 1..Len(columns) : i \notin {qty_col, exmill_col} /\ columns[i] # <<"M","o","n","t","h">>})

transform_vspink_brief(d) ==
    LET columns == [i \in 1..Len(d.columns) |-> CleanVspinkColumn(d.columns[i])]
        article_col == brief_find_column(columns, <<<<"a","r","t","i","c","l","e">>>>)
        exmill_col == brief_find_column(columns, <<<<"e","x","-","m","i","l","l">>, <<"e","x"," ","m","i","l","l">>, <<"e","x","m","i","l","l">>>>)
        qty_col == brief_find_column(columns, <<<<"q","t","y">>, <<"q","t","y"," ","(","m",")">>, <<"q","t","y"," ","(","m",")">>, <<"q","t","y"," ","(","m",")">>>>)
        keep == IF article_col = 0 \/ exmill_col = 0 THEN {}
                ELSE {r \in ValidDateRows(d.rows, exmill_col) : d.rows[r][article_col] # NaN}
        meta_cols == MetaColumns(columns, qty_col, exmill_col)
        index_cols == IF Len(meta_cols) = 0 THEN <<article_col>> ELSE meta_cols
        grouped == GroupRows(LongRows(d.rows, keep, index_cols, exmill_col,
                                      [r \in keep |-> CleanQty(d.rows[r][qty_col])]), FALSE)
        pivoted == GroupRows(grouped, TRUE)
    IN  IF article_col = 0 \/ exmill_col = 0 \/ qty_col = 0
        THEN ColumnError("Could not detect required columns",
                         {<<"A","r","t","i","c","l","e">>, <<"E","X","-","m","i","l","l">>, <<"Q","t","y"," ","(","m",")">>}, <<>>)
        ELSE IF keep = {} THEN EmptyDataFrame
        ELSE PivotedTable(Cells(columns, index_cols), SortedMonths(pivoted), pivoted)

\* a test that takes the first row for blank whatever it holds
FirstRowAlwaysBlank(rows) == TRUE

\* df.iloc[0].isna().all()
FirstRowBlank(rows) == \A j \in 1..Len(rows[1]) : rows[1][j] = NaN

\* the keywords of the ex-mill role of transform_vspink_apparel
ApparelExMillKeywords == <<<<"e","x","-","m","i","l","l">>, <<"e","x"," ","m","i","l","l">>, <<"e","x","m","i","l","l">>>>

transform_vspink_apparel(d) ==
    LET rows == IF d.rows # <<>> /\ FirstRowBlank(d.rows) THEN Tail(d.rows) ELSE d.rows
        columns == [i \in 1..Len(d.columns) |-> CleanVspinkColumn(d.columns[i])]
        article_col == apparel_find_column(columns, <<<<"a","r","t","i","c","l","e">>>>)
        exmill_col == apparel_find_column(columns, ApparelExMillKeywords)
        qty_col == apparel_find_column(columns, <<<<"q","t","y">>, <<"q","t","y"," ","(","m",")">>>>)
        keep == IF article_col = 0 \/ exmill_col = 0 THEN {}
                ELSE {r \in ValidDateRows(rows, exmill_col) : rows[r][article_col] # NaN}
        meta_cols == MetaColumns(columns, qty_col, exmill_col)
        grouped == GroupRows(LongRows(rows, keep, meta_cols, exmill_col,
                                      [r \in keep |-> CleanQty(rows[r][qty_col])]), TRUE)
    IN  IF d.rows = <<>> THEN RaisedError("IndexError: single positional indexer is out-of-bounds")
        ELSE IF article_col = 0 \/ exmill_col = 0 \/ qty_col = 0
        THEN ColumnError("Could not detect required columns: Article, EX-mill, Qty.",
                         {<<"A","r","t","i","c","l","e">>, <<"E","X","-","m","i","l","l">>, <<"Q","t","y">>}, <<>>)
        ELSE IF keep = {} THEN EmptyDataFrame
        ELSE PivotedTable(Cells(columns, meta_cols), SortedMonths(grouped), grouped)

(***************************************************************************)
(* transform_plm_to_mcu of DBI                                             *)
(***************************************************************************)
\* re.match(r"^(jan|...|dec)[-_ ]?\d{0,4}$", low): a month abbreviation, at
\* most one of "-", "_", " " and at most four digits
MatchesMonthPattern(low) ==
    /\ Len(low) >= 3
    /\ \E m \in 1..12 : SubSeq(low, 1, 3) = MonthAbbr[m]
    /\ LET rest == SubSeq(low, 4, Len(low))
            digits == IF rest # <<>> /\ Head(rest) \in {"-", "_", " "} THEN Tail(rest) ELSE rest
        IN  Len(digits) <= 4 /\ \A i \in 1..Len(digits) : IsDigit(digits[i])

\* col.lower().replace("-", "").replace("_", "")[:3].title()
CleanMonth(col) == Capitalize(SubSeq(replace(replace(lower(col), "-", <<>>), "_", <<>>), 1, 3))

all_months == [m \in 1..12 |-> Capitalize(MonthAbbr[m])]

\* df[labels]: for every label in turn all the columns that have the label
RECURSIVE ColumnsLabelled(_, _)
ColumnsLabelled(names, labels) ==
    IF labels = <<>> THEN <<>>
    ELSE Select([i \in 1..Len(names) |-> i], {i \in 1..Len(names) : names[i] = Head(labels)})
            \o ColumnsLabelled(names, Tail(labels))

\* the table is [columns, rows] after the "sum" columns are dropped, the month
\* columns renamed and a column of 0 added for every month that is not there
transform_dbi(d) ==
    LET kept == Select([i \in 1..Len(d.columns) |-> i], NotSumColumns(d.columns))
        renamed == [k \in 1..Len(kept) |->
                        IF MatchesMonthPattern(lower(d.columns[kept[k]]))
                        THEN CleanMonth(d.columns[kept[k]]) ELSE d.columns[kept[k]]]
        absent == Select(all_months, {m \in 1..12 : \A k \in 1..Len(renamed) : renamed[k] # all_months[m]})
        names == renamed \o absent
        cell(r, k) == IF k <= Len(kept) THEN d.rows[r][kept[k]] ELSE <<"0">>
        fixed_cols == Select([k \in 1..Len(names) |-> k],
                             {k \in 1..Len(names) : \A m \in 1..12 : names[k] # all_months[m]})
        month_idx == ColumnsLabelled(names, all_months)
    IN  [status  |-> "table",
         error   |-> "",
         columns |-> Cells(names, fixed_cols),
         months  |-> Cells(names, month_idx),
         rows    |-> [r \in 1..Len(d.rows) |->
                        [key |-> [i \in 1..Len(fixed_cols) |-> cell(r, fixed_cols[i])],
                         qty |-> [i \in 1..Len(month_idx) |-> cell(r, month_idx[i])]]],
         grouped |-> {},
         named   |-> {},
         listed  |-> <<>>]

(***************************************************************************)
(* plm_to_mcu_all_sheets of SOMA and plm_to_mcu of La Senza (the same      *)
(* code): a workbook is the sequence of its sheets, each a table           *)
(***************************************************************************)
\* df.columns.str.strip() of a sheet
SheetColumns(sheet) == [i \in 1..Len(sheet.columns) |-> strip(sheet.columns[i])]

\* month_cols = [c for c in df.columns if '-' in c and not c.lower().startswith('sum')]
SheetMonthNames(sheet) ==
    LET columns == SheetColumns(sheet)
    IN  Cells(columns, DashColumns(columns, NotSumColumns(columns)))

Elements(q) == {q[i] : i \in 1..Len(q)}

\* all_months_set after the first pass
all_months_set(sheets) == UNION {Elements(SheetMonthNames(sheets[k])) : k \in 1..Len(sheets)}

\* the orders  [c for _, c in sorted(zip(parsed, all_months_set)) if not pd.isna(_)]
\* can have.  When every name parses with "%b-%y" it is the order of the parsed
\* dates, equal dates in the order of the text.  When a name does not parse its
\* NaT is less than nothing and nothing is less than it, so what the sort
\* leaves depends on the order the set was iterated in: any order of the names
\* that parse is taken as possible
MonthOrders(S) ==
    LET ok == {x \in S : Strptime(x, <<"%b", "-", "%y">>) # NaT}
    IN  IF ok = S THEN {SortByKey(S, [x \in S |-> FormatKey(x)])}
        ELSE {q \in [1..Cardinality(ok) -> ok] : \A i, j \in 1..Cardinality(ok) : q[i] = q[j] => i = j}

\* df_mcu of one sheet in the second pass: "Sheet Names", the metadata columns
\* the sheet has, and every month of the sorted list, 0 where the sheet lacks it
SheetFrame(sheet, all_months_sorted) ==
    LET columns == SheetColumns(sheet)
        keep_cols == Select(REQUIRED_COLS, {i \in 1..Len(REQUIRED_COLS) :
                                                \E j \in 1..Len(columns) : columns[j] = REQUIRED_COLS[i]})
        month_cols == Elements(SheetMonthNames(sheet))
        cell(r, label) == sheet.rows[r][FirstIndex({j \in 1..Len(columns) : columns[j] = label})]
    IN  [columns |-> <<<<"S","h","e","e","t"," ","N","a","m","e","s">>>> \o keep_cols \o all_months_sorted,
         rows    |-> [r \in 1..Len(sheet.rows) |->
                        <<<<"F","a","b","r","i","c","s">>>>
                        \o [i \in 1..Len(keep_cols) |-> cell(r, keep_cols[i])]
                        \o [i \in 1..Len(all_months_sorted) |->
                                IF all_months_sorted[i] \in month_cols
                                THEN cell(r, all_months_sorted[i]) ELSE <<"0">>]]]

\* the columns of pd.concat(frames): every column name in the order of its
\* first appearance
RECURSIVE ConcatColumns(_, _)
ConcatColumns(frames, seen) ==
    IF frames = <<>> THEN seen
    ELSE LET cols == Head(frames).columns
             fresh == Select(cols, {i \in 1..Len(cols) : cols[i] \notin Elements(seen)})
         IN  ConcatColumns(Tail(frames), seen \o fresh)

\* the rows of pd.concat(frames, ignore_index=True): the rows of the frames one
\* after the other, a missing cell where a frame lacks the column
RECURSIVE ConcatRows(_, _)
ConcatRows(frames, columns) ==
    IF frames = <<>> THEN <<>>
    ELSE LET f == Head(frames)
             at(label) == FirstIndex({j \in 1..Len(f.columns) : f.columns[j] = label})
         IN  [r \in 1..Len(f.rows) |->
                [i \in 1..Len(columns) |-> IF at(columns[i]) = 0 THEN NaN ELSE f.rows[r][at(columns[i])]]]
             \o ConcatRows(Tail(frames), columns)

\* the table returned for the workbook when the sorted month list is
\* all_months_sorted: columns holds all its columns in their order, months the
\* month columns, a row its cells (key) and its cells under the months (qty)
plm_to_mcu_all_sheets(sheets, all_months_sorted) ==
    LET mcu_list == [k \in 1..Len(sheets) |-> SheetFrame(sheets[k], all_months_sorted)]
        columns == ConcatColumns(mcu_list, <<>>)
        rows == ConcatRows(mcu_list, columns)
        at(label) == FirstIndex({j \in 1..Len(columns) : columns[j] = label})
    IN  [status  |-> "table",
         error   |-> "",
         columns |-> columns,
         months  |-> all_months_sorted,
         rows    |-> [r \in 1..Len(rows) |->
                        [key |-> rows[r],
                         qty |-> [i \in 1..Len(all_months_sorted) |-> rows[r][at(all_months_sorted[i])]]]],
         grouped |-> {},
         named   |-> {},
         listed  |-> <<>>]

(***************************************************************************)
(* transform_plm_download_to_mcu of Tommy EU                               *)
(***************************************************************************)
\* the columns copied from the download: mcu[c] = df[c]
TommyCopied == Tail(REQUIRED_COLS)
\* the month columns: mcu[m] = df.get(m, 0)
TommyMonths == <<<<"N","o","v">>, <<"D","e","c">>, <<"J","a","n">>, <<"F","e","b">>, <<"M","a","r">>>>
\* the fixed columns set last and their values
TommyTrailer == <<<<"C","o","l","u","m","n","2","4">>, <<"C","o","l","u","m","n","2","5">>, <<"F","a","b","r","i","c","s","_","1">>, <<"S","h","e","e","t">>, <<"f","a","l","s","e">>>>
TommyTrailerValues == <<<<>>, <<>>, <<"F","a","b","r","i","c","s">>, <<"S","h","e","e","t">>, <<"F","A","L","S","E">>>>

\* mcu["Fabrics"] = "Fabrics" and mcu["Season"] = season are set while mcu has
\* no row, so both columns are empty; mcu["Style"] = df["Style"] then gives mcu
\* the rows of df and leaves a missing value in every row of the two columns
ScalarIntoEmptyFrame(value) == NaN

\* the returned table: columns holds the columns that are no month columns in
\* their order (the trailer stands after the months), key the cells of a row
\* under them, qty its cells under the months
transform_plm_download_to_mcu(d, season_arg) ==
    LET at(label) == FirstIndex({j \in 1..Len(d.columns) : d.columns[j] = label})
        missing == {i \in 1..Len(TommyCopied) : at(TommyCopied[i]) = 0}
    IN  IF missing # {} THEN RaisedError("KeyError")
        ELSE [status  |-> "table",
              error   |-> "",
              columns |-> <<<<"F","a","b","r","i","c","s">>, <<"S","e","a","s","o","n">>>> \o TommyCopied \o TommyTrailer,
              months  |-> TommyMonths,
              rows    |-> [r \in 1..Len(d.rows) |->
                            [key |-> <<ScalarIntoEmptyFrame(<<"F","a","b","r","i","c","s">>), ScalarIntoEmptyFrame(season_arg)>>
                                     \o [i \in 1..Len(TommyCopied) |-> d.rows[r][at(TommyCopied[i])]]
                                     \o TommyTrailerValues,
                             qty |-> [i \in 1..Len(TommyMonths) |->
                                        IF at(TommyMonths[i]) = 0 THEN <<"0">>
                                        ELSE d.rows[r][at(TommyMonths[i])]]]],
              grouped |-> {},
              named   |-> {},
              listed  |-> <<>>]

(***************************************************************************)
(* Inputs of the month specification: header texts and country cells       *)
(***************************************************************************)
\* n written with w digits
RECURSIVE Digits(_, _)
Digits(n, w) == IF w = 0 THEN <<>> ELSE Digits(n \div 10, w - 1) \o <<DigitOf(n % 10)>>

upper(t) == [i \in 1..Len(t) |-> UpperChar(t[i])]

MonthNames ==
    {Capitalize(MonthAbbr[m]) : m \in 1..12} \cup {upper(MonthAbbr[m]) : m \in 1..12}
        \cup {Capitalize(MonthFull[m]) : m \in 1..12}

Separators == {<<"-">>, <<" ">>, <<>>, <<".">>, <<"_">>, <<"/">>}

YearTexts2 == {Digits(n, 2) : n \in {0, 24, 25, 26, 68, 69, 99}}
YearTexts4 == {Digits(n, 4) : n \in {1925, 1969, 2024, 2025, 2026, 2068, 2069}}
DayTexts == {Digits(n, 2) : n \in {15, 31}}

\* headers that carry a decoration or a misspelt month name
OddHeaders == {
    <<"Q","t","y"," ","N","o","v","-","2","5">>,
    <<"N","o","v","e","m","-","2","5">>,
    <<" ","N","o","v","-","2","5"," ">>,
    <<"N","o","v"," "," ","2","5">> }

HeaderTexts ==
    {n \o p \o y : n \in MonthNames, p \in Separators, y \in YearTexts2}
        \cup {n \o p \o y : n \in MonthNames, p \in Separators \ {<<>>}, y \in YearTexts4}
        \cup {y \o <<"-">> \o n : y \in YearTexts4, n \in MonthNames}
        \cup {d \o p \o Capitalize(MonthAbbr[m]) \o p \o y :
                d \in DayTexts, p \in {<<"-">>, <<" ">>}, m \in 1..12, y \in YearTexts4}
        \cup OddHeaders

CountryTexts == {
    <<"S","r","i"," ","L","a","n","k","a">>,
    <<" ","S","R","I"," ","L","A","N","K","A"," ">>,
    <<"S","r","i","L","a","n","k","a">>,
    <<"S","r","i","-","L","a","n","k","a">>,
    <<"L","a","n","k","a">>,
    <<"S","r","i"," ","L",".">>,
    <<"S","r","i">>,
    <<"S","L">>,
    <<"I","s","l","a","n","d">>,
    <<"I","n","d","i","a">>,
    <<>>,
    NaN }

(***************************************************************************)
(* Month specification: one melted row of transform_ndc, from its month    *)
(* header to the label of its adjusted month and the sort key of the label *)
(***************************************************************************)
InitMonth ==
    /\ pc = "melted"
    /\ brand = "NDC"
    /\ s \in {h \in HeaderTexts : IsMonthColumn(h)}
    /\ country = <<>>
    /\ dt = NaT
    /\ Adjusted_dt = NaT
    /\ AdjustedMonth = <<>>
    /\ reparsed = NaT
    /\ df = NoTable
    /\ result = NoResult
    /\ ExtIdle

\* melted["OriginalMonth_dt"] = melted["OriginalMonth"].apply(parse_month_string)
ParseOriginalMonth ==
    /\ pc = "melted"
    /\ dt' = parse_month_string(s)
    /\ pc' = IF dt' = NaT THEN "dropped" ELSE "parsed"
    /\ UNCHANGED <<brand, s, country, Adjusted_dt, AdjustedMonth, reparsed, df, result, extvars>>

\* melted["Adjusted_dt"] = melted.apply(adjust_dt, axis=1) with the country cell
\* the row holds, and melted["AdjustedMonth"], its label
AdjustRow ==
    /\ pc = "parsed"
    /\ country' \in CountryTexts
    /\ Adjusted_dt' = adjust_dt(country', dt)
    /\ AdjustedMonth' = strftime_b_y(Adjusted_dt')
    /\ pc' = "adjusted"
    /\ UNCHANGED <<brand, s, dt, reparsed, df, result, extvars>>

\* parsed = [parse_month_string(c) for c in month_cols_new]
ParseLabel ==
    /\ pc = "adjusted"
    /\ reparsed' = parse_month_string(AdjustedMonth)
    /\ pc' = "sorted"
    /\ UNCHANGED <<brand, s, dt, country, Adjusted_dt, AdjustedMonth, df, result, extvars>>

NextMonth == ParseOriginalMonth \/ AdjustRow \/ ParseLabel

SpecMonth == InitMonth /\ [][NextMonth]_vars

(***************************************************************************)
(* Properties of the month specification                                   *)
(***************************************************************************)
RowAdjusted == pc \in {"adjusted", "sorted"}

\* the number of calendar months the adjusted month lies before the original one
MonthsEarlier == MonthIndex(dt) - MonthIndex(Adjusted_dt)

\* the row was given the offset of a local supplier
TreatedAsLocal == Adjusted_dt = MinusDays(dt, LocalDays)

CountryLow == lower(strip(Str(country)))
HasSri == Contains(<<"s","r","i">>, CountryLow)
HasLanka == Contains(<<"l","a","n","k","a">>, CountryLow)

\* C1: for a country classified as local the adjusted month is exactly 3
\* calendar months before the original month.
C1_LocalThreeMonthsEarlier == (RowAdjusted /\ IsLocal(country)) => MonthsEarlier = 3

\* C2: for a country not classified as local the adjusted month is exactly 4
\* calendar months before the original month, whatever day of the month the
\* parser gave the header.
C2_ForeignFourMonthsEarlier == (RowAdjusted /\ ~IsLocal(country)) => MonthsEarlier = 4

\* C3 as stated: a country is treated as local if and only if its stripped,
\* lower-cased text contains "sri" or contains "lanka".
C3_LocalIffEitherToken == RowAdjusted => (TreatedAsLocal <=> (HasSri \/ HasLanka))

\* C3 as amended: a country is treated as local if and only if its stripped,
\* lower-cased text contains both "sri" and "lanka", or is exactly "sl" or "sri";
\* every other value is treated as foreign.
C3_LocalIffBothTokensOrCode ==
    RowAdjusted =>
        /\ TreatedAsLocal <=> ((HasSri /\ HasLanka) \/ CountryLow \in {<<"s","l">>, <<"s","r","i">>})
        /\ ~TreatedAsLocal <=> Adjusted_dt = MinusDays(dt, ForeignDays)

\* a country holding one token alone was given the foreign offset
C3_Witness ==
    /\ pc = "adjusted"
    /\ country = <<"L","a","n","k","a">>
    /\ Adjusted_dt = MinusDays(dt, ForeignDays)

\* the (year, month) of the parsed header survives formatting as <Mon>-<yy> and
\* parsing again
RoundTrips ==
    LET again == parse_month_string(strftime_b_y(dt))
    IN  again.y = dt.y /\ again.m = dt.m

HeaderStripped == strip(s)
EndsInTwoDigitYear ==
    LET n == Len(HeaderStripped)
    IN  /\ n >= 3
        /\ IsDigit(HeaderStripped[n]) /\ IsDigit(HeaderStripped[n - 1])
        /\ ~IsDigit(HeaderStripped[n - 2])
        /\ ~IsDigit(HeaderStripped[1])

\* C8: a month text with the two-digit year yy is given the year 2000 + yy.
C8_TwoDigitYearIs2000Plus ==
    (pc = "parsed" /\ EndsInTwoDigitYear) =>
        dt.y = 2000 + DigitsAt(HeaderStripped, Len(HeaderStripped) - 1, 2)

(***************************************************************************)
(* Input tables                                                            *)
(***************************************************************************)
MaxRows == 2

\* a column of an input layout: its header and the cells a row may hold under it
Col(name, cells) == [name |-> name, cells |-> cells]

RECURSIVE RowsOf(_)
RowsOf(layout) ==
    IF layout = <<>> THEN {<<>>}
    ELSE {<<c>> \o r : c \in Head(layout).cells, r \in RowsOf(Tail(layout))}

\* the tables of a layout with up to MaxRows rows
TablesOf(layout) ==
    {[columns |-> [i \in 1..Len(layout) |-> layout[i].name], rows |-> rr]
        : rr \in UNION {[1..n -> RowsOf(layout)] : n \in 0..MaxRows}}

TextA1 == <<"A","1">>
TextAcme == <<"A","c","m","e">>
TextIndia == <<"I","n","d","i","a">>
TextSriLanka == <<"S","r","i"," ","L","a","n","k","a">>
QtyCells == {<<"0">>, <<"7">>}
QtyTextCells == {<<"1",",","2","0","0">>, <<" ","7"," ">>}
\* a cell that is not a number, a missing cell and a number
QtyBadCells == {<<"a","b","c">>, NaN, <<"7">>}

HdrNov25 == <<"N","o","v","-","2","5">>
HdrDec25 == <<"D","e","c","-","2","5">>
HdrApr26 == <<"A","p","r","-","2","6">>
HdrMay2026 == <<"M","a","y"," ","2","0","2","6">>
HdrQtyNov25 == <<"Q","t","y"," ","N","o","v","-","2","5">>
Hdr15Nov2025 == <<"1","5","-","N","o","v","-","2","0","2","5">>

NdcMeta == <<
    Col(<<"A","r","t","i","c","l","e">>, {TextA1, NaN}),
    Col(<<"S","u","p","p","l","i","e","r">>, {TextAcme}),
    Col(<<"S","u","p","p","l","i","e","r"," ","C","o","u","n","t","r","y">>, {TextIndia, TextSriLanka}) >>

NdcMetaFull == <<
    Col(<<"A","r","t","i","c","l","e">>, {TextA1}),
    Col(<<"S","u","p","p","l","i","e","r">>, {TextAcme}),
    Col(<<"S","u","p","p","l","i","e","r"," ","C","o","u","n","t","r","y">>, {TextIndia, TextSriLanka}) >>

NdcLayouts == {
    NdcMeta \o <<Col(HdrNov25, QtyCells), Col(HdrDec25, QtyCells)>>,
    NdcMetaFull \o <<Col(HdrMay2026, QtyCells), Col(HdrApr26, QtyCells)>>,
    NdcMetaFull \o <<Col(HdrNov25, QtyCells), Col(HdrQtyNov25, {<<"7">>})>>,
    NdcMetaFull \o <<Col(Hdr15Nov2025, QtyTextCells), Col(HdrNov25, QtyCells)>>,
    NdcMetaFull \o <<Col(HdrQtyNov25, QtyCells)>>,
    NdcMeta,
    <<Col(<<"A","r","t","i","c","l","e">>, {TextA1}),
      Col(<<"S","u","p","p","l","i","e","r"," ","C","o","u","n","t","r","y">>, {TextIndia}),
      Col(HdrNov25, QtyCells)>>,
    <<Col(<<"A","r","t","i","c","l","e">>, {TextA1}), Col(<<"S","u","p","p","l","i","e","r">>, {TextAcme}), Col(<<"S","u","p","p","l","i","e","r"," ","C","o","u","n","t","r","y">>, {TextIndia}),
      Col(HdrDec25, QtyBadCells)>> }

NdcTables == UNION {TablesOf(layout) : layout \in NdcLayouts}

\* PLM downloads of TH Apparel and M&S
TextX == <<"x">>
PlmRequired == [i \in 1..Len(REQUIRED_COLS) |-> Col(REQUIRED_COLS[i], {TextX})]
PlmLayouts == {
    PlmRequired \o <<Col(HdrNov25, {NaN, <<"0">>, <<"7">>}),
                     Col(<<"S","u","m"," ","N","o","v","-","2","5">>, {<<"7">>}),
                     Col(<<" ","D","e","c","-","2","5"," ">>, {NaN, <<"7">>})>>,
    Tail(PlmRequired) \o <<Col(HdrNov25, {<<"7">>})>> }
PlmTables == UNION {TablesOf(layout) : layout \in PlmLayouts}

\* buy sheets
DateNov == <<"2","0","2","5","-","1","1","-","1","5">>
DateJan == <<"2","0","2","6","-","0","1","-","1","0">>
DateTBC == <<"T","B","C">>
DateCells == {DateNov, DateJan, DateTBC}
DateDec68 == <<"2","0","6","8","-","1","2","-","1","5">>
DateJan69 == <<"2","0","6","9","-","0","1","-","1","0">>
ArticleCells == {TextA1, NaN}

PinkLayouts == {
    <<Col(<<"S","u","p","p","l","i","e","r">>, {TextAcme}), Col(<<"A","r","t","i","c","l","e"," ","N","o">>, ArticleCells),
      Col(<<"R","M",NBSP,"E","x"," ","M","i","l","l">>, DateCells), Col(<<"Q","t","y">>, QtyCells)>>,
    <<Col(<<"V","e","n","d","o","r">>, {TextAcme}), Col(<<"A","r","t","i","c","l","e","-","N","o",".">>, {TextA1}), Col(<<"P","l","a","n","t">>, {NaN}),
      Col(<<"E","X",".","M","I","L","L"," ","G","C">>, {DateNov}), Col(<<"Q","u","a","n","t","i","t","y">>, {<<"1",",","2","0","0">>, <<"7",NBSP>>})>>,
    <<Col(<<"S","u","p","p","l","i","e","r">>, {TextAcme}), Col(<<"A","r","t","i","c","l","e"," ","N","o">>, {TextA1}),
      Col(<<"R","M"," ","E","x"," ","M","i","l","l">>, {DateNov})>>,
    <<Col(<<"S","u","p","p","l","i","e","r"," ","C","o","u","n","t","r","y">>, {TextIndia}), Col(<<"A","r","t","i","c","l","e"," ","N","o">>, {TextA1}),
      Col(<<"R","M"," ","E","x"," ","M","i","l","l">>, {DateNov}), Col(<<"Q","t","y">>, {<<"0">>})>>,
    <<Col(<<"S","u","p","p","l","i","e","r">>, {TextAcme}), Col(<<"A","r","t","i","c","l","e"," ","N","o">>, {TextA1}),
      Col(<<"R","M"," ","E","x"," ","M","i","l","l">>, {DateNov}), Col(<<"Q","t","y">>, {<<"a","b","c">>, <<" ">>, <<"-","3">>, <<"7">>})>>,
    <<Col(<<"A","r","t","i","c","l","e"," ","N","o">>, {TextA1}), Col(<<"R","M"," ","E","x"," ","M","i","l","l">>, {DateNov}), Col(<<"Q","t","y">>, {<<"7">>})>>,
    <<Col(<<"S","u","p","p","l","i","e","r">>, {TextAcme}), Col(<<"A","r","t","i","c","l","e"," "," ","N","o">>, {TextA1}),
      Col(<<"R","M","\t",NBSP,"E","x"," ","M","i","l","l">>, {DateNov}), Col(<<"Q","t","y">>, {<<"7">>})>> }
PinkTables == UNION {TablesOf(layout) : layout \in PinkLayouts}

VsBraMeta == <<
    Col(<<"V","e","n","d","o","r">>, {TextAcme}), Col(<<"C","a","t","e","g","o","r","y">>, {TextX}),
    Col(<<"D","e","p","t",NBSP,"C","o","d","e">>, {TextX}), Col(<<"F","S">>, {TextX}),
    Col(<<"P","r","o","g","r","a","m">>, {TextX}), Col(<<"S","t","y","l","e">>, {TextX}), Col(<<"B","S">>, {TextX}),
    Col(<<"C","O","O">>, {TextX}), Col(<<"S","u","p","p","l","i","e","r"," ","N","a","m","e">>, {TextAcme}),
    Col(<<"A","r","t","i","c","l","e"," ","N","o",".">>, ArticleCells), Col(<<"M","e","a","s","u","r","e","m","e","n","t">>, {TextX}) >>
VsBraLayouts == {
    VsBraMeta \o <<Col(<<"R","E","Q","."," ","E","x">> \o MisdecodedEnDash \o <<"m","i","l","l"," ","D","a","t","e">>, DateCells),
                   Col(<<"R","e","q","u","i","r","e","m","e","n","t"," ","(","M",")">>, QtyCells)>>,
    VsBraMeta \o <<Col(<<"R","e","q","u","i","r","e","m","e","n","t"," ","(","M",")">>, {<<"7">>})>> }
VsBraTables == UNION {TablesOf(layout) : layout \in VsBraLayouts}

BriefLayouts == {
    <<Col(<<"C","u","s","t","o","m","e","r">>, {<<"V","S">>, NaN}), Col(<<"A","r","t","i","c","l","e">>, {TextA1}),
      Col(<<"E","X","-","m","i","l","l">>, {DateNov, DateTBC}), Col(<<" ","Q","t","y"," ","(","m",")"," ">>, QtyCells)>>,
    <<Col(<<"A","r","t","i","c","l","e"," ","C","o","d","e">>, {TextA1}), Col(<<"E","x"," ","M","i","l","l">>, DateCells), Col(<<"Q","t","y">>, {<<"7">>}),
      Col(<<"A","r","t","i","c","l","e">>, {TextA1})>>,
    <<Col(<<"A","r","t","i","c","l","e">>, {TextA1}), Col(<<"Q","t","y">>, {<<"7">>})>> }
BriefTables == UNION {TablesOf(layout) : layout \in BriefLayouts}

ApparelLayouts == {
    <<Col(<<"A","r","t","i","c","l","e">>, {TextA1}), Col(<<"E","X","-","m","i","l","l"," ">>, DateCells), Col(<<"Q","t","y"," ","(","m",")">>, QtyCells)>>,
    <<Col(<<"C","o","l","o","r">>, {<<"R","e","d">>, NaN}), Col(<<"A","r","t","i","c","l","e">>, {TextA1, NaN}),
      Col(<<"E","x","m","i","l","l">>, {DateNov, NaN}), Col(<<"Q","t","y">>, {<<"7">>, NaN})>>,
    <<Col(<<"A","r","t","i","c","l","e">>, {TextA1}), Col(<<"E","X","-","m","i","l","l">>, {DateDec68, DateJan69}), Col(<<"Q","t","y">>, {<<"7">>})>>,
    <<Col(<<"A","r","t","i","c","l","e">>, {TextA1}), Col(<<"Q","t","y">>, {<<"7">>})>>,
    <<Col(<<"A","r","t","i","c","l","e">>, {TextA1}), Col(<<"E","x","m","i","l","l">>, {DateNov}), Col(<<"E","X","-","m","i","l","l">>, {DateJan}),
      Col(<<"Q","t","y">>, {<<"7">>})>> }
ApparelTables == UNION {TablesOf(layout) : layout \in ApparelLayouts}

\* PLM downloads of DBI
DbiLayouts == {
    <<Col(<<"S","t","y","l","e">>, {TextX}), Col(<<"S","u","m"," ","J","a","n">>, {<<"7">>}), Col(<<"J","a","n","-","2","4">>, {<<"7">>, NaN}),
      Col(<<"J","a","n","-","2","5">>, {<<"5">>}), Col(<<"n","o","v","_","2","0","2","5">>, {<<"3">>})>>,
    <<Col(<<"S","t","y","l","e">>, {TextX}), Col(<<"F","e","b">>, {<<"7">>, NaN}), Col(<<"S","u","p","p","l","i","e","r">>, {TextAcme}),
      Col(<<"M","a","r"," ","2","5">>, {<<"0">>, <<"7">>})>> }
DbiTables == UNION {TablesOf(layout) : layout \in DbiLayouts}

\* PLM download workbooks of SOMA and La Senza: one sheet or two
HdrOct25 == <<"O","c","t","-","2","5">>
HdrNov2025 == <<"N","o","v","-","2","0","2","5">>
SheetLayouts == {
    <<Col(<<"S","t","y","l","e">>, {TextX}), Col(HdrNov25, {<<"7">>}), Col(<<" ","D","e","c","-","2","5">>, {NaN, <<"5">>})>>,
    <<Col(<<"S","t","y","l","e">>, {TextX}), Col(<<"A","r","t","i","c","l","e">>, {TextA1}), Col(HdrDec25, {<<"3">>}), Col(HdrOct25, {<<"2">>}),
      Col(<<"S","u","m"," ","O","c","t","-","2","5">>, {<<"9">>})>>,
    <<Col(<<"S","t","y","l","e">>, {TextX}), Col(HdrNov2025, {<<"7">>}), Col(HdrDec25, {<<"5">>})>> }
SheetTables == UNION {TablesOf(layout) : layout \in SheetLayouts}
Workbooks == {<<a>> : a \in SheetTables} \cup {<<a, b>> : a \in SheetTables, b \in SheetTables}

\* PLM downloads of Tommy EU and the seasons typed in
TommyMeta == [i \in 1..Len(TommyCopied) |->
                Col(TommyCopied[i], IF TommyCopied[i] = <<"A","r","t","i","c","l","e">> THEN {TextA1, <<"B","2">>} ELSE {TextX})]
TommyLayouts == {
    TommyMeta \o <<Col(<<"N","o","v">>, {<<"7">>, NaN}), Col(<<"J","a","n">>, {<<"5">>})>>,
    TommyMeta,
    Tail(TommyMeta) \o <<Col(<<"N","o","v">>, {<<"7">>})>> }
TommyTables == UNION {TablesOf(layout) : layout \in TommyLayouts}
Seasons == {<<"S","p","r","i","n","g"," ","2","0","2","5">>, <<"F","a","l","l"," ","2","0","2","5">>}

(***************************************************************************)
(* The specification of the table transforms: a table is uploaded to the   *)
(* page of a brand and the brand's transform is run on it                  *)
(***************************************************************************)
Init ==
    /\ pc = "uploaded"
    /\ \/ (brand = "NDC" /\ df \in NdcTables)
       \/ (brand \in {"TH Apparel", "M&S"} /\ df \in PlmTables)
       \/ (brand = "VSPink Brief" /\ df \in BriefTables)
       \/ (brand = "VSPink Apparel" /\ df \in ApparelTables)
       \/ (brand = "Pink Bra" /\ df \in PinkTables)
       \/ (brand = "VS Bra" /\ df \in VsBraTables)
       \/ (brand = "DBI" /\ df \in DbiTables)
       \/ (brand \in {"SOMA", "La Senza"} /\ df \in Workbooks)
       \/ (brand = "Tommy EU" /\ df \in TommyTables)
    /\ s = <<>>
    /\ country = <<>>
    /\ dt = NaT
    /\ Adjusted_dt = NaT
    /\ AdjustedMonth = <<>>
    /\ reparsed = NaT
    /\ result = NoResult
    /\ resolved = <<>>
    /\ season \in (IF brand = "Tommy EU" THEN Seasons ELSE {<<>>})
    /\ AppIdle

rowvars == <<s, dt, country, Adjusted_dt, AdjustedMonth, reparsed>>

\* out_df = transform_ndc(df); the transform works on a copy of the table
TransformNdc ==
    /\ pc = "uploaded"
    /\ brand = "NDC"
    /\ result' = transform_ndc(df)
    /\ pc' = "done"
    /\ UNCHANGED <<brand, df, rowvars, extvars>>

\* df_out = transform_plm_to_mcu(df) of the TH Apparel page; the transform
\* writes the stripped column names into the table it is given
TransformThApparel ==
    /\ pc = "uploaded"
    /\ brand = "TH Apparel"
    /\ result' = transform_plm_to_mcu(df)
    /\ df' = [df EXCEPT !.columns = [i \in 1..Len(df.columns) |-> strip(df.columns[i])]]
    /\ pc' = "done"
    /\ UNCHANGED <<brand, rowvars, extvars>>

\* df_final = transform_plm_to_mcu(df) of the M&S page
TransformMS ==
    /\ pc = "uploaded"
    /\ brand = "M&S"
    /\ result' = transform_plm_to_mcu(df)
    /\ df' = [df EXCEPT !.columns = [i \in 1..Len(df.columns) |-> strip(df.columns[i])]]
    /\ pc' = "done"
    /\ UNCHANGED <<brand, rowvars, extvars>>

\* df_out = transform_pink_bra(uploaded); the transform reads the file itself
TransformPinkBra ==
    /\ pc = "uploaded"
    /\ brand = "Pink Bra"
    /\ result' = transform_pink_bra(df)
    /\ pc' = "done"
    /\ UNCHANGED <<brand, df, rowvars, extvars>>

\* df_out = transform_vs_bra(uploaded); the transform reads the file itself
TransformVsBra ==
    /\ pc = "uploaded"
    /\ brand = "VS Bra"
    /\ result' = transform_vs_bra(df)
    /\ pc' = "done"
    /\ UNCHANGED <<brand, df, rowvars, extvars>>

\* transformed_df = transform_vspink_brief(df); the transform works on a copy
TransformVspinkBrief ==
    /\ pc = "uploaded"
    /\ brand = "VSPink Brief"
    /\ result' = transform_vspink_brief(df)
    /\ pc' = "done"
    /\ UNCHANGED <<brand, df, rowvars, extvars>>

\* transformed_df = transform_vspink_apparel(df); unless the first row is blank
\* (then the transform goes on with a copy) the normalised column names are
\* written into the table it is given
TransformVspinkApparel ==
    /\ pc = "uploaded"
    /\ brand = "VSPink Apparel"
    /\ result' = transform_vspink_apparel(df)
    /\ df' = IF df.rows = <<>> \/ FirstRowBlank(df.rows) THEN df
             ELSE [df EXCEPT !.columns = [i \in 1..Len(df.columns) |-> CleanVspinkColumn(df.columns[i])]]
    /\ pc' = "done"
    /\ UNCHANGED <<brand, rowvars, extvars>>

\* df_mcu = transform_plm_to_mcu(df_plm) of the DBI page; the transform works
\* on tables of its own from its first statement on
TransformDbi ==
    /\ pc = "uploaded"
    /\ brand = "DBI"
    /\ result' = transform_dbi(df)
    /\ pc' = "done"
    /\ UNCHANGED <<brand, df, rowvars, extvars>>

\* df_out = plm_to_mcu_all_sheets(plm_file) of the SOMA page; df is the workbook
TransformSoma ==
    /\ pc = "uploaded"
    /\ brand = "SOMA"
    /\ \E all_months_sorted \in MonthOrders(all_months_set(df)) :
            result' = plm_to_mcu_all_sheets(df, all_months_sorted)
    /\ pc' = "done"
    /\ UNCHANGED <<brand, df, rowvars, extvars>>

\* df_mcu = plm_to_mcu(plm_file) of the La Senza page; df is the workbook
TransformLaSenza ==
    /\ pc = "uploaded"
    /\ brand = "La Senza"
    /\ \E sorted_months \in MonthOrders(all_months_set(df)) :
            result' = plm_to_mcu_all_sheets(df, sorted_months)
    /\ pc' = "done"
    /\ UNCHANGED <<brand, df, rowvars, extvars>>

\* mcu_frames.append(transform_plm_download_to_mcu(df, season)) for one file
TransformTommyEu ==
    /\ pc = "uploaded"
    /\ brand = "Tommy EU"
    /\ result' = transform_plm_download_to_mcu(df, season)
    /\ pc' = "done"
    /\ UNCHANGED <<brand, df, rowvars, extvars>>

Next ==
    \/ TransformNdc
    \/ TransformThApparel
    \/ TransformMS
    \/ TransformPinkBra
    \/ TransformVsBra
    \/ TransformVspinkBrief
    \/ TransformVspinkApparel
    \/ TransformDbi
    \/ TransformSoma
    \/ TransformLaSenza
    \/ TransformTommyEu

Spec == Init /\ [][Next]_vars

(***************************************************************************)
(* Properties of the table transforms                                      *)
(***************************************************************************)
Done == pc = "done"
Accepted == Done /\ result.status = "table"

\* the sum of f over the finite set S
RECURSIVE SumOver(_, _)
SumOver(S, f) == IF S = {} THEN 0 ELSE LET x == CHOOSE x \in S : TRUE IN f[x] + SumOver(S \ {x}, f)

\* the sum of all month cells of the returned pivot
TableTotal == SumOver(result.rows, [x \in result.rows |-> SumSeq(x.qty)])

\* the cells of the uploaded table: every row under every column of cols
CellsUnder(cols) == (1..Len(df.rows)) \X cols

NdcHeader(c) == CleanNdcColumn(df.columns[c])
DetectedMonthColumns == {c \in 1..Len(df.columns) : IsMonthColumn(NdcHeader(c))}
ParsedMonthColumns == {c \in DetectedMonthColumns : parse_month_string(NdcHeader(c)) # NaT}

\* the sum of the cleaned quantities of the melted rows whose month header parsed
MeltedQuantity ==
    LET cells == CellsUnder(ParsedMonthColumns)
    IN  SumOver(cells, [x \in cells |-> CleanQty(df.rows[x[1]][x[2]])])

\* C4: for every table transform_ndc accepts, the sum of all month cells of the
\* returned wide table equals the sum of the cleaned quantities of all melted
\* rows whose month header parsed, rows with a missing metadata cell included
C4_NdcConservation ==
    (Accepted /\ brand = "NDC") => TableTotal = MeltedQuantity

\* the number a cell of a PLM download holds, a missing cell counting 0
CellValue(cell) == IF cell = NaN THEN 0 ELSE to_numeric_fillna(cell)

PlmBrands == {"TH Apparel", "M&S"}

\* the month-bearing columns of a PLM download: the header is a month label
MonthBearingColumns ==
    {c \in 1..Len(df.columns) : Strptime(strip(df.columns[c]), <<"%b", "-", "%y">>) # NaT}

PlmInputTotal ==
    LET cells == {x \in CellsUnder(MonthBearingColumns) : CellValue(df.rows[x[1]][x[2]]) # 0}
    IN  SumOver(cells, [x \in cells |-> CellValue(df.rows[x[1]][x[2]])])

PlmOutputTotal ==
    LET rr == DOMAIN result.rows
    IN  SumOver(rr, [r \in rr |->
            SumSeq([i \in 1..Len(result.rows[r].qty) |-> CellValue(result.rows[r].qty[i])])])

PivotingBrands == {"NDC", "Pink Bra", "VS Bra", "VSPink Brief", "VSPink Apparel"}

\* a column name of the form <Mon>-<yy>
IsMonthLabel(t) ==
    /\ Len(t) = 6
    /\ \E m \in 1..12 : SubSeq(t, 1, 3) = Capitalize(MonthAbbr[m])
    /\ t[4] = "-"
    /\ IsDigit(t[5])
    /\ IsDigit(t[6])

\* the calendar month a label denotes, counted in months
DenotedMonth(t) ==
    12 * (2000 + 10 * DigitVal(t[5]) + DigitVal(t[6]))
        + (CHOOSE m \in 1..12 : SubSeq(t, 1, 3) = Capitalize(MonthAbbr[m]))

\* C6: in the table a pivoting transform returns, the metadata columns come
\* first and are followed by the month columns named <Mon>-<yy>, the month
\* columns are in strictly ascending order of the calendar months they denote,
\* and every (key, month) cell without a contributing row holds 0
C6_OutputLayout ==
    (Accepted /\ brand \in PivotingBrands) =>
        /\ \A i \in 1..Len(result.columns) : ~IsMonthLabel(result.columns[i])
        /\ \A i \in 1..Len(result.months) : IsMonthLabel(result.months[i])
        /\ \A i, j \in 1..Len(result.months) :
              i < j => DenotedMonth(result.months[i]) < DenotedMonth(result.months[j])
        /\ \A row \in result.rows :
              /\ Len(row.key) = Len(result.columns)
              /\ Len(row.qty) = Len(result.months)
              /\ \A i \in 1..Len(result.months) :
                    (~\E l \in result.grouped : l.key = row.key /\ l.month = result.months[i])
                        => row.qty[i] = 0

UnparseableMonthHeader == DetectedMonthColumns # ParsedMonthColumns

\* C9: when a column detected as month-bearing has a header that no supported
\* encoding parses, transform_ndc aborts with an error and the column is not
\* left out of the output silently
C9_HeaderFailureAborts ==
    (Done /\ brand = "NDC" /\ df.rows # <<>> /\ UnparseableMonthHeader) => result.status = "error"

LongBrands == {"Pink Bra", "VS Bra", "VSPink Brief", "VSPink Apparel"}

TransformOf(b, d) ==
    CASE b = "Pink Bra" -> transform_pink_bra(d)
      [] b = "VS Bra" -> transform_vs_bra(d)
      [] b = "VSPink Brief" -> transform_vspink_brief(d)
      [] b = "VSPink Apparel" -> transform_vspink_apparel(d)

\* the columns of a buy sheet by the words of their names
SheetColumn(words) ==
    FirstIndex({i \in 1..Len(df.columns) : \E w \in words : Contains(w, lower(Str(df.columns[i])))})
ExMillColumn == SheetColumn({<<"m","i","l","l">>})
ArticleColumn == SheetColumn({<<"a","r","t","i","c","l","e">>})
QtyColumn == SheetColumn({<<"q","t","y">>, <<"q","u","a","n","t","i","t","y">>, <<"r","e","q","u","i","r","e","m","e","n","t">>})
AllRolesPresent == ExMillColumn # 0 /\ ArticleColumn # 0 /\ QtyColumn # 0
SupplierColumn == SheetColumn({<<"s","u","p","p","l","i","e","r">>, <<"v","e","n","d","o","r">>})
\* the columns the transform of the brand requires are there: Pink Bra requires
\* a supplier column besides the three
RequiredRolesPresent == AllRolesPresent /\ (brand = "Pink Bra" => SupplierColumn # 0)

BadDate(row) == to_datetime_coerce(row[ExMillColumn]) = NaT
\* a row that has an article and a quantity
Usable(row) == row[ArticleColumn] # NaN /\ CleanQtyPink(row[QtyColumn]) # 0

\* what a run hands back: the error, or the columns and the rows of the table
Returned(r) ==
    [status |-> r.status, error |-> r.error, columns |-> r.columns, months |-> r.months,
     rows |-> r.rows]

\* the buy sheet without the rows whose date does not parse
WithoutBadDates ==
    [df EXCEPT !.rows = Select(df.rows, {r \in 1..Len(df.rows) : ~BadDate(df.rows[r])})]

\* C10: in the transform of a buy sheet that has the columns the transform
\* requires, a row whose date cell cannot be parsed
\* is dropped and every other row is processed as if the row were not there;
\* the run is aborted only when no row at all remains
C10_BadDateRecoverable ==
    (Done /\ brand \in LongBrands /\ RequiredRolesPresent) =>
        /\ (\E r \in 1..Len(df.rows) : ~BadDate(df.rows[r]))
              => Returned(result) = Returned(TransformOf(brand, WithoutBadDates))
        /\ result.status = "error"
              => ~\E r \in 1..Len(df.rows) : ~BadDate(df.rows[r]) /\ Usable(df.rows[r])

\* a buy sheet with a row whose date does not parse and a row whose date does,
\* both with an article and a quantity; a table with the quantity is returned
C10_Witness ==
    /\ Accepted
    /\ brand \in LongBrands
    /\ RequiredRolesPresent
    /\ \E r \in 1..Len(df.rows) : BadDate(df.rows[r]) /\ Usable(df.rows[r])
    /\ \E r \in 1..Len(df.rows) : ~BadDate(df.rows[r]) /\ Usable(df.rows[r])
    /\ TableTotal > 0

\* C11: rows whose cleaned quantity is 0 are dropped before aggregation, so no
\* month column of a returned pivot holds only zeros
C11_NoAllZeroMonthColumn ==
    (Accepted /\ brand \in PivotingBrands) =>
        \A i \in 1..Len(result.months) : \E row \in result.rows : row.qty[i] # 0

\* the uploaded table has the columns the brand's transform needs
ColumnsResolved ==
    IF brand = "NDC"
    THEN /\ \E c \in 1..Len(df.columns) : lower(NdcHeader(c)) = TextSupplier
         /\ \E c \in 1..Len(df.columns) : Contains(TextSupplierCountry, lower(NdcHeader(c)))
         /\ ParsedMonthColumns # {}
    ELSE /\ AllRolesPresent
         /\ brand = "Pink Bra" => SupplierColumn # 0
         /\ brand = "VS Bra" => Len(df.columns) = 13

\* no quantity is left once the rows without a date, without an article or
\* with the quantity 0 are set aside
NoSurvivor ==
    IF brand = "NDC"
    THEN \A x \in CellsUnder(ParsedMonthColumns) : CleanQty(df.rows[x[1]][x[2]]) = 0
    ELSE \A r \in 1..Len(df.rows) : BadDate(df.rows[r]) \/ ~Usable(df.rows[r])

EmptyResultErrors ==
    {"After parsing dates/qty there are no valid rows to process",
     "No valid rows after parsing EX-mill dates or Article values"}

\* C12: when no row survives the date and quantity filtering, the transform ends
\* with an explicit empty-result outcome (an empty-result error or the empty
\* table the page warns about), never with an ordinary pivoted table or a crash
C12_EmptyResultExplicit ==
    (Done /\ brand \in PivotingBrands /\ ColumnsResolved /\ NoSurvivor) =>
        \/ result.status = "empty"
        \/ result.status = "error" /\ result.error \in EmptyResultErrors

\* the names a brand's messages give to the ex-mill, the article and the quantity role
RoleNames ==
    CASE brand = "Pink Bra" -> <<<<"R","M"," ","E","x"," ","M","i","l","l">>, <<"A","r","t","i","c","l","e"," ","N","o">>, <<"Q","t","y">>>>
      [] brand = "VS Bra" -> <<<<"R","E","Q","."," ","E","x","-","m","i","l","l"," ","D","a","t","e">>, <<"A","r","t","i","c","l","e"," ","N","o",".">>, <<"R","e","q","u","i","r","e","m","e","n","t"," ","(","M",")">>>>
      [] brand = "VSPink Brief" -> <<<<"E","X","-","m","i","l","l">>, <<"A","r","t","i","c","l","e">>, <<"Q","t","y"," ","(","m",")">>>>
      [] brand = "VSPink Apparel" -> <<<<"E","X","-","m","i","l","l">>, <<"A","r","t","i","c","l","e">>, <<"Q","t","y">>>>

\* the names of the roles among them that no header of the sheet matches
MissingRoleNames ==
    {RoleNames[i] : i \in {j \in 1..3 : <<ExMillColumn, ArticleColumn, QtyColumn>>[j] = 0}}

\* C13: when a required role matches no header, the transform raises an error
\* that names every missing role and lists all headers of the sheet, and no
\* table is produced
C13_ColumnErrorSelfDescribing ==
    (Done /\ brand \in LongBrands /\ df.rows # <<>> /\ ~AllRolesPresent) =>
        /\ result.status = "error"
        /\ MissingRoleNames \subseteq result.named
        /\ Len(result.listed) = Len(df.columns)

\* the columns of the uploaded Pink Bra sheet that the detection gave to a role
PinkRoles == DetectPinkColumns(normalize_map(df.columns))
PinkRoleNames == {"rm_col", "qty_col", "article_col", "supplier_col", "measurement_col",
                  "supplier_country_col", "type_of_cons_col", "plant_col"}

\* C14: when the Pink Bra detection finds its four required roles, no column of
\* the sheet is given to two roles: the roles that were detected are detected
\* on pairwise different columns
C14_RolesDistinct ==
    (Done /\ brand = "Pink Bra" /\ \A n \in {"rm_col", "qty_col", "article_col", "supplier_col"} : PinkRoles[n] # 0) =>
        \A m, n \in PinkRoleNames : (m # n /\ PinkRoles[m] # 0) => PinkRoles[m] # PinkRoles[n]

\* the column the transform reads the ex-mill dates from
ApparelExMillColumn ==
    apparel_find_column([i \in 1..Len(df.columns) |-> CleanVspinkColumn(df.columns[i])], ApparelExMillKeywords)
\* the leftmost column whose name holds one of the keywords, whichever it is
LeftmostExMillColumn ==
    FirstIndex({i \in 1..Len(df.columns) :
                    \E k \in 1..Len(ApparelExMillKeywords) :
                        Contains(ApparelExMillKeywords[k], lower(CleanVspinkColumn(df.columns[i])))})

\* C15: in the VSPink Apparel transform the column resolved for the ex-mill
\* role is the leftmost column whose name holds any of the keywords of the
\* role, and the months of the output are the months of the dates of that column
C15_LeftmostHeaderWins ==
    (Accepted /\ brand = "VSPink Apparel") =>
        /\ ApparelExMillColumn = LeftmostExMillColumn
        /\ \A i \in 1..Len(result.months) :
                \E r \in 1..Len(df.rows) :
                    /\ to_datetime_coerce(df.rows[r][LeftmostExMillColumn]) # NaT
                    /\ result.months[i] = MonthLabel(df.rows[r][LeftmostExMillColumn])

\* the decimal text of a whole number
RECURSIVE Decimal(_)
Decimal(n) ==
    IF n < 0 THEN <<"-">> \o Decimal(0 - n)
    ELSE IF n < 10 THEN <<DigitOf(n)>>
    ELSE Decimal(n \div 10) \o <<DigitOf(n % 10)>>

\* the number a quantity cell stands for: its text without thousands separators
\* and without the white space around it when that is a whole number, else 0
ExpectedQty(cell) ==
    LET u == IF cell = NaN THEN <<>> ELSE strip(replace(cell, ",", <<>>))
    IN  IF IsDigits(u) THEN DigitsValue(u)
        ELSE IF u # <<>> /\ Head(u) = "-" /\ IsDigits(Tail(u)) THEN 0 - DigitsValue(Tail(u))
        ELSE 0

\* the columns of the uploaded table that hold quantities
QuantityColumns == IF brand = "NDC" THEN ParsedMonthColumns ELSE {QtyColumn} \ {0}

\* a quantity cell that cannot be read as a number
Uncoercible(cell) ==
    cell = NaN \/ strip(cell) = <<>> \/ \E i \in 1..Len(cell) : IsLower(cell[i]) \/ IsUpper(cell[i])

\* the uploaded table with every quantity cell written as its number
WithPlainQuantities ==
    [df EXCEPT !.rows = [r \in 1..Len(df.rows) |->
        [c \in 1..Len(df.columns) |->
            IF c \in QuantityColumns THEN Decimal(ExpectedQty(df.rows[r][c])) ELSE df.rows[r][c]]]]

QtyBrands == {"NDC"} \cup LongBrands

\* C16: cleaning a quantity cell never aborts the run: the run on a table
\* returns what it returns on the table whose quantity cells are written as
\* plain numbers, a cell that cannot be coerced written as 0 and every other
\* row and cell left as it is
C16_QtyCoercionNeverAborts ==
    (Done /\ brand \in QtyBrands) =>
        Returned(result) =
            Returned(IF brand = "NDC" THEN transform_ndc(WithPlainQuantities)
                     ELSE TransformOf(brand, WithPlainQuantities))

\* a table with a quantity cell that cannot be coerced and a row with a
\* quantity, which is accepted
C16_Witness ==
    /\ Accepted
    /\ brand \in {"NDC", "Pink Bra"}
    /\ \E x \in CellsUnder(QuantityColumns) : Uncoercible(df.rows[x[1]][x[2]])
    /\ \E x \in CellsUnder(QuantityColumns) : ExpectedQty(df.rows[x[1]][x[2]]) > 0
    /\ TableTotal > 0

\* C17: every cell of the wide table a buy-sheet transform returns is a number
\* that is not negative, whatever the quantity cells of the sheet hold
C17_NonNegativeQuantities ==
    (Accepted /\ brand \in LongBrands) =>
        \A row \in result.rows : \A i \in 1..Len(row.qty) : row.qty[i] >= 0

\* the metadata key of row r of the uploaded NDC table: its cells under the
\* columns that are not month columns
NdcIdColumns ==
    Select([i \in 1..Len(df.columns) |-> i], (1..Len(df.columns)) \ DetectedMonthColumns)
NdcKey(r) == Cells(df.rows[r], NdcIdColumns)
NdcCountryColumn ==
    FirstIndex({c \in 1..Len(df.columns) : Contains(TextSupplierCountry, lower(NdcHeader(c)))})
\* the label of the adjusted month of the cell of row r under month column c
NdcAdjustedLabel(r, c) ==
    strftime_b_y(adjust_dt(df.rows[r][NdcCountryColumn], parse_month_string(NdcHeader(c))))
\* the cells of the uploaded table that have the key and the adjusted month
NdcCellsOf(key, label) ==
    {x \in CellsUnder(ParsedMonthColumns) : NdcKey(x[1]) = key /\ NdcAdjustedLabel(x[1], x[2]) = label}

\* C18: the table transform_ndc returns has exactly one row for the metadata
\* key of every row of the uploaded table, and each of its cells is the sum of
\* the quantities of all uploaded cells with that key and that adjusted month
C18_OneRowPerKey ==
    (Accepted /\ brand = "NDC") =>
        /\ \A r \in 1..Len(df.rows) : Cardinality({row \in result.rows : row.key = NdcKey(r)}) = 1
        /\ \A row \in result.rows : \A i \in 1..Len(result.months) :
                LET cells == NdcCellsOf(row.key, result.months[i])
                IN  row.qty[i] = SumOver(cells, [x \in cells |-> CleanQty(df.rows[x[1]][x[2]])])

\* C19: a Pink Bra sheet that has an ex-mill column, an article column and a
\* quantity column and a row with a date, an article and a quantity is
\* transformed into a table, with or without a supplier column and a supplier
\* country column
C19_SupplierOptional ==
    (Done /\ brand = "Pink Bra" /\ AllRolesPresent
          /\ \E r \in 1..Len(df.rows) : ~BadDate(df.rows[r]) /\ Usable(df.rows[r])) =>
        result.status = "table"

\* a supplier country that names no country the adjuster knows: missing, empty,
\* or a text that has neither "sri" nor "lanka" in it and is not the code "sl"
Unrecognized ==
    \/ country = NaN
    \/ strip(country) = <<>>
    \/ (~HasSri /\ ~HasLanka /\ CountryLow # <<"s","l">>)

\* C20: for every supplier country, a missing cell, an empty text and an
\* unrecognized text included, the adjuster returns a date and the label of its
\* month; for a missing, empty or unrecognized country the date is the
\* original one less the foreign lead time
C20_AdjusterTotal ==
    RowAdjusted =>
        /\ Adjusted_dt # NaT
        /\ Adjusted_dt \in {MinusDays(dt, LocalDays), MinusDays(dt, ForeignDays)}
        /\ IsMonthLabel(AdjustedMonth)
        /\ Unrecognized => Adjusted_dt = MinusDays(dt, ForeignDays)

\* the row of a missing supplier country was adjusted by the foreign lead time
C20_Witness ==
    /\ pc = "adjusted"
    /\ country = NaN
    /\ Adjusted_dt = MinusDays(dt, ForeignDays)
    /\ IsMonthLabel(AdjustedMonth)

\* the uploaded table with its rows in the order p
Shuffled(p) == [df EXCEPT !.rows = [i \in 1..Len(df.rows) |-> df.rows[p[i]]]]

\* the permutations that exchange two neighbouring rows; every order of the
\* rows is reached by such exchanges, and every table they lead through is an
\* uploaded table
RowSwaps ==
    {[i \in 1..Len(df.rows) |-> IF i = k THEN k + 1 ELSE IF i = k + 1 THEN k ELSE i]
        : k \in 1..(Len(df.rows) - 1)}

Canonical(t) ==
    /\ \A i \in 1..Len(t) : t[i] \notin {NBSP, NNBSP, EnDash, EmDash, "\t", "\n"}
    /\ strip(t) = t
    /\ \A i \in 1..(Len(t) - 1) : ~(t[i] = " " /\ t[i + 1] = " ")

\* C22: the name deep_clean_colname returns for a column of a Pink Bra sheet
\* is canonical
C22_CleanNameCanonical ==
    (Done /\ brand = "Pink Bra") =>
        \A c \in 1..Len(df.columns) : Canonical(deep_clean_colname(df.columns[c]))

\* C23: the call of a transform leaves the table it is given as it was: the
\* column names and the cells of the caller's table are the same after the call
\* as before, and the transform run again on that table returns the same
C23_InputUnchanged ==
    [][(pc = "uploaded" /\ pc' = "done" /\ brand \in PlmBrands) =>
            /\ df' = df
            /\ transform_plm_to_mcu(df') = result']_vars

(***************************************************************************)
(* The specification of the column detection: the detection of             *)
(* transform_pink_bra is run on one header list more than once             *)
(***************************************************************************)
MaxResolutions == 2
HeaderCount == 4

\* every order of the columns
AnyItemsOrder(columns) ==
    {p \in [1..Len(columns) -> 1..Len(columns)] : \A i, j \in 1..Len(columns) : p[i] = p[j] => i = j}

\* normalized_map.items(): the mapping is a dict filled column by column, and
\* a dict is iterated in the order its keys were inserted
ItemsOrders(columns) == {[i \in 1..Len(columns) |-> i]}

\* the detection with the mapping iterated in the given order: the roles of
\* DetectPinkColumns over the reordered mapping, as columns of the sheet
DetectInOrder(order, columns) ==
    LET col_map == normalize_map(columns)
        det == DetectPinkColumns([i \in 1..Len(columns) |-> col_map[order[i]]])
    IN  [n \in DOMAIN det |-> IF det[n] = 0 THEN 0 ELSE order[det[n]]]

ResolveHeaders == {<<"S","u","p","p","l","i","e","r">>, <<"V","e","n","d","o","r">>, <<"A","r","t","i","c","l","e"," ","N","o">>, <<"R","M"," ","E","x"," ","M","i","l","l">>, <<"Q","t","y">>, <<"Q","u","a","n","t","i","t","y">>}
HeaderLists ==
    {h \in [1..HeaderCount -> ResolveHeaders] : \A i, j \in 1..HeaderCount : h[i] = h[j] => i = j}

InitResolve ==
    /\ pc = "headers"
    /\ brand = "Pink Bra"
    /\ \E h \in HeaderLists : df = [columns |-> h, rows |-> <<>>]
    /\ s = <<>>
    /\ country = <<>>
    /\ dt = NaT
    /\ Adjusted_dt = NaT
    /\ AdjustedMonth = <<>>
    /\ reparsed = NaT
    /\ result = NoResult
    /\ ExtIdle

\* col_map = normalize_map(orig_cols) and the find_best_col calls of one run
ResolveColumns ==
    /\ pc = "headers"
    /\ Len(resolved) < MaxResolutions
    /\ \E order \in ItemsOrders(df.columns) :
            resolved' = Append(resolved, DetectInOrder(order, df.columns))
    /\ UNCHANGED <<pc, brand, df, result, rowvars, season, appvars>>

NextResolve == ResolveColumns

SpecResolve == InitResolve /\ [][NextResolve]_vars

C25_DbiMonthLayout ==
    (Accepted /\ brand = "DBI") =>
        /\ result.months = all_months
        /\ \A i \in 1..Len(result.months) :
                (\A c \in 1..Len(df.columns) : ~StartsWith(lower(df.columns[c]), lower(result.months[i])))
                    => \A r \in 1..Len(result.rows) : result.rows[r].qty[i] = <<"0">>

SheetBrands == {"SOMA", "La Senza"}

\* the place of a column name among the columns of the returned table, or 0
OutputColumn(label) == FirstIndex({i \in 1..Len(result.columns) : result.columns[i] = label})

\* the row of the returned table that row r of sheet k of the workbook becomes
OutputRow(k, r) == SumSeq([j \in 1..(k - 1) |-> Len(df[j].rows)]) + r

\* C26: every column detected as a month column in a sheet of the workbook is
\* exactly once in the returned table, after the metadata columns and in
\* chronological order; a row has its sheet's cell under a month column of its
\* sheet and 0 under a month column its sheet lacks
C26_MonthAlignment ==
    (Accepted /\ brand \in SheetBrands) =>
        LET detected == all_months_set(df)
        IN  /\ \A h \in detected :
                    Cardinality({i \in 1..Len(result.columns) : result.columns[i] = h}) = 1
            /\ \A i \in 1..Len(result.columns) : \A h \in detected :
                    result.columns[i] \notin detected => i < OutputColumn(h)
            /\ \A g, h \in detected : FormatKey(g) < FormatKey(h) => OutputColumn(g) < OutputColumn(h)
            /\ \A k \in 1..Len(df) : \A r \in 1..Len(df[k].rows) : \A h \in detected :
                    LET c == FirstIndex({j \in 1..Len(df[k].columns) : strip(df[k].columns[j]) = h})
                    IN  result.rows[OutputRow(k, r)].key[OutputColumn(h)] =
                            IF c = 0 THEN <<"0">> ELSE df[k].rows[r][c]

\* C27: for a Tommy EU download with at least one row the returned table has
\* one row for every row of the download, in every row "Fabrics" in the column
\* Fabrics and the season in the column Season, the copied metadata, the fixed
\* values of the trailer, and 0 under a month the download has no column for
C27_TommyFixedColumns ==
    (Accepted /\ brand = "Tommy EU" /\ Len(df.rows) >= 1) =>
        /\ Len(result.rows) = Len(df.rows)
        /\ \A r \in 1..Len(result.rows) :
                /\ result.rows[r].key[OutputColumn(<<"F","a","b","r","i","c","s">>)] = <<"F","a","b","r","i","c","s">>
                /\ result.rows[r].key[OutputColumn(<<"S","e","a","s","o","n">>)] = season
                /\ \A c \in 1..Len(df.columns) :
                        OutputColumn(df.columns[c]) # 0 =>
                            result.rows[r].key[OutputColumn(df.columns[c])] = df.rows[r][c]
                /\ result.rows[r].key[OutputColumn(<<"F","a","b","r","i","c","s","_","1">>)] = <<"F","a","b","r","i","c","s">>
                /\ \A i \in 1..Len(result.months) :
                        (\A c \in 1..Len(df.columns) : df.columns[c] # result.months[i])
                            => result.rows[r].qty[i] = <<"0">>

(***************************************************************************)
(* The app script (app.py): every run of the script checks the brand       *)
(* files for a modification, loads the brand modules through the cache,    *)
(* lists the pages and renders the page chosen in the sidebar.             *)
(***************************************************************************)
MaxMtime == 2

\* pkgutil.iter_modules(brands.__path__) yields the names in sorted order
ModuleNames == <<"DBI", "PinkBra">>
ModuleSet == {ModuleNames[i] : i \in DOMAIN ModuleNames}
Sessions == {"session 1", "session 2"}
Home == "Home"

\* what importlib.import_module does with a brand file: it returns the module
\* with the attributes it defines, or the import raises an Exception (a
\* missing import, a syntax error), or it raises outside Exception
\* (SystemExit of sys.exit(), KeyboardInterrupt, the stop of the script)
ImportOutcomes ==
    { [raises |-> "no", attrs |-> a] : a \in {{"render", "name"}, {"render"}} }
    \cup { [raises |-> x, attrs |-> {}] : x \in {"Exception", "BaseException"} }

\* hasattr(mod, "render") and hasattr(mod, "name")
HasPageAttrs(mod) == "render" \in mod.attrs /\ "name" \in mod.attrs

\* the loop of load_brand_modules from the i-th name on: "except Exception"
\* warns and goes on, any other exception leaves the function
RECURSIVE LoadFrom(_, _, _)
LoadFrom(mods, i, acc) ==
    IF i > Len(ModuleNames) THEN acc
    ELSE LET name == ModuleNames[i]
             mod == mods[name]
         IN  IF mod.raises = "BaseException"
                 THEN [acc EXCEPT !.raised = TRUE, !.modules = {}]
             ELSE IF mod.raises = "Exception"
                 THEN LoadFrom(mods, i + 1, [acc EXCEPT !.warned = @ \cup {name}])
             ELSE IF HasPageAttrs(mod)
                 THEN LoadFrom(mods, i + 1, [acc EXCEPT !.modules = @ \cup {name}])
             ELSE LoadFrom(mods, i + 1, acc)

\* raised: the call did not return; modules: the keys of the returned dict;
\* warned: the names st.warning was called for
load_brand_modules(mods) ==
    LoadFrom(mods, 1, [raised |-> FALSE, modules |-> {}, warned |-> {}])

RECURSIVE MaxOf(_)
MaxOf(S) == LET x == CHOOSE x \in S : TRUE
            IN  IF S = {x} THEN x
                ELSE LET rest == MaxOf(S \ {x}) IN IF x > rest THEN x ELSE rest

\* max(os.path.getmtime(p) for p in folder.rglob("*.py"))
folder_last_modified(times) == MaxOf({times[m] : m \in ModuleSet})

\* st.session_state.get("last_refresh_time", 0)
last_refresh_time(state) == IF state = <<>> THEN 0 ELSE state[1]

\* the cache is cleared on any run that follows no modification either
ModifiedSinceOrSame(current_mod_time, last) == current_mod_time >= last

\* if current_mod_time > last_refresh_time
ModifiedSince(current_mod_time, last) == current_mod_time > last

InitApp ==
    /\ pc = "app"
    /\ brand = ""
    /\ s = <<>>
    /\ dt = NaT
    /\ country = <<>>
    /\ Adjusted_dt = NaT
    /\ AdjustedMonth = <<>>
    /\ reparsed = NaT
    /\ df = <<>>
    /\ result = NoResult
    /\ resolved = <<>>
    /\ season = <<>>
    /\ mtime \in [ModuleSet -> 1..MaxMtime]
    /\ modules \in [ModuleSet -> ImportOutcomes]
    /\ session_state = [sess \in Sessions |-> <<>>]
    /\ cache = <<>>
    /\ run = <<>>

\* one run of the script in a session, with the page chosen in the sidebar
Rerun(sess, choice) ==
    LET last == last_refresh_time(session_state[sess])
        current_mod_time == folder_last_modified(mtime)
        clear == ModifiedSince(current_mod_time, last)
        cached == IF clear THEN <<>> ELSE cache
        load == load_brand_modules(modules)
        aborted == cached = <<>> /\ load.raised
        brand_modules == IF cached = <<>> THEN load.modules ELSE cached[1]
        pages == IF aborted THEN {Home} ELSE {Home} \cup brand_modules
    IN  /\ pc = "app"
        /\ choice \in pages
        /\ session_state' = IF clear THEN [session_state EXCEPT ![sess] = <<current_mod_time>>]
                             ELSE session_state
        /\ cache' = IF aborted THEN <<>> ELSE <<brand_modules>>
        /\ run' = [cleared  |-> clear,
                   loaded   |-> cached = <<>>,
                   aborted  |-> aborted,
                   returned |-> IF aborted THEN {} ELSE brand_modules,
                   warned   |-> IF cached = <<>> THEN load.warned ELSE {},
                   rendered |-> IF aborted THEN {} ELSE brand_modules \cap {choice}]
        /\ UNCHANGED <<pc, brand, df, result, rowvars, resolved, season, mtime, modules>>

\* a brand file is written: its modification time and what importing it does
ModifyBrandFile(name, time, outcome) ==
    /\ pc = "app"
    /\ <<time, outcome>> # <<mtime[name], modules[name]>>
    /\ mtime' = [mtime EXCEPT ![name] = time]
    /\ modules' = [modules EXCEPT ![name] = outcome]
    /\ UNCHANGED <<pc, brand, df, result, rowvars, resolved, season, session_state, cache, run>>

\* ttl=10: the cached value is dropped ten seconds after it was stored
CacheExpires ==
    /\ pc = "app"
    /\ cache # <<>>
    /\ cache' = <<>>
    /\ UNCHANGED <<pc, brand, df, result, rowvars, resolved, season, mtime, modules, session_state, run>>

NextApp ==
    \/ \E sess \in Sessions, choice \in {Home} \cup ModuleSet : Rerun(sess, choice)
    \/ \E name \in ModuleSet, time \in 1..MaxMtime, outcome \in ImportOutcomes :
            ModifyBrandFile(name, time, outcome)
    \/ CacheExpires

SpecApp == InitApp /\ [][NextApp]_vars

Importable(mods) ==
    {m \in ModuleSet : mods[m].raises = "no" /\ {"render", "name"} \subseteq mods[m].attrs}

\* C29: when a run of the script calls load_brand_modules, it returns exactly
\* the modules that import without raising and define both render and name,
\* every module whose import raises is warned about and keeps no other module
\* from being loaded, and only returned modules are pages or are rendered
C29_FaultIsolated ==
    [][\A sess \in Sessions, choice \in {Home} \cup ModuleSet :
            Rerun(sess, choice) =>
                /\ run'.loaded =>
                        /\ run'.returned = Importable(modules)
                        /\ \A m \in ModuleSet : modules[m].raises # "no" => m \in run'.warned
                /\ run'.rendered \subseteq run'.returned
                /\ choice # Home => choice \in run'.returned]_vars

====
